---------------------------- MODULE Spec2Model ----------------------------
(***************************************************************************)
(* RecruitFlow: the application state machine with its audit log, the call *)
(* dispatcher, the call-result reducer (webhook and poll), late binding of *)
(* batch calls, the evaluation adapter and the scheduler sweeps.           *)
(*                                                                         *)
(* The database is one record, db.  Every operation of the code is an      *)
(* operator from a database to a result [db, raised, status]: the database *)
(* it leaves behind, whether it raised, and the status attribute of the    *)
(* in-memory Application instance afterwards.  transaction.atomic() is the *)
(* operator Atomic, which restores the database when its body raised.      *)
(***************************************************************************)
EXTENDS Integers, Sequences, FiniteSets, TLC

VARIABLES
    db,      \* the persisted rows (Application, StatusChange, Call, LLMEvaluation)
    now,     \* timezone.now(), in minutes
    ev,      \* the handler that ran last: what it was, on which row, how it ended
    sweep,   \* check_cv_followups: the queryset rows still to be processed
    procs    \* in-flight webhook deliveries / evaluate_call invocations

vars == <<db, now, ev, sweep, procs>>

-----------------------------------------------------------------------------
(* Bounds of the model *)

MaxAudit == 4      \* StatusChange rows per application
MaxCalls == 1      \* Call rows
MaxTicks == 1      \* clock ticks
NumApps == 1       \* Application rows
MaxManual == 1     \* StatusChange rows per application written by the recruiter
MaxProcs == 2      \* concurrent webhook deliveries / evaluation attempts
MaxPaths == 2      \* distinct paths _save_cv_file is observed to return

-----------------------------------------------------------------------------
(* Application.Status, src/applications/models.py *)

PENDING_CALL == "pending_call"
CALL_QUEUED == "call_queued"
CALL_IN_PROGRESS == "call_in_progress"
CALL_COMPLETED == "call_completed"
CALL_FAILED == "call_failed"
SCORING == "scoring"
QUALIFIED == "qualified"
AWAITING_CV == "awaiting_cv"
CV_FOLLOWUP_1 == "cv_followup_1"
CV_FOLLOWUP_2 == "cv_followup_2"
CV_OVERDUE == "cv_overdue"
CV_RECEIVED == "cv_received"
NOT_QUALIFIED == "not_qualified"
AWAITING_CV_REJECTED == "awaiting_cv_rejected"
CV_RECEIVED_REJECTED == "cv_received_rejected"
CALLBACK_SCHEDULED == "callback_scheduled"
NEEDS_HUMAN == "needs_human"
CLOSED == "closed"

AppStatus ==
    { PENDING_CALL, CALL_QUEUED, CALL_IN_PROGRESS, CALL_COMPLETED, CALL_FAILED,
      SCORING, QUALIFIED, AWAITING_CV, CV_FOLLOWUP_1, CV_FOLLOWUP_2, CV_OVERDUE,
      CV_RECEIVED, NOT_QUALIFIED, AWAITING_CV_REJECTED, CV_RECEIVED_REJECTED,
      CALLBACK_SCHEDULED, NEEDS_HUMAN, CLOSED }

AWAITING_CV_STATUSES ==
    { AWAITING_CV, CV_FOLLOWUP_1, CV_FOLLOWUP_2, CV_OVERDUE, AWAITING_CV_REJECTED }

Null == "null"        \* NULL of a text column
NoTime == 0 - 1       \* NULL of a DateTimeField

AppIds == DOMAIN db.status

\* The uuid-prefixed storage paths of saved CV files.
Paths == 1 .. MaxPaths

-----------------------------------------------------------------------------
(* Results of an operation *)

Ok(d, st) == [db |-> d, raised |-> FALSE, status |-> st]
Raise(d, st) == [db |-> d, raised |-> TRUE, status |-> st]

\* A database error injected into one ORM write of an operation: "field" fails
\* the UPDATE of the adjacent field of a compound transition, "save" the UPDATE
\* of the status, "create" the INSERT of the StatusChange row.
Faults == {"none", "save", "create"}
CompoundFaults == Faults \cup {"field"}

\* with transaction.atomic(): body -- a raising body leaves the database as it was.
AtomicNoRollback(d0, r) == r

\* The rollback restores the rows; the cache (db.cache: an entry is present under
\* "sidebar_counts") is no part of the transaction.
Atomic(d0, r) == IF r.raised THEN [r EXCEPT !.db = [d0 EXCEPT !.cache = r.db.cache]] ELSE r

-----------------------------------------------------------------------------
(* Application.change_status and applications/transitions.py *)

\* changed_by is the recruiter (USER) or NULL (a system transition).
USER == "user"
StatusChangeRow(old, new, by) == [from |-> old, to |-> new, by |-> by]

\* The early return of change_status dropped.
ChangeStatusNoGuard(d, a, memStatus, new, by, fault) ==
    IF fault = "save" THEN Raise(d, new)
    ELSE LET d1 == [d EXCEPT !.status[a] = new]
         IN  IF fault = "create" THEN Raise(d1, new)
             ELSE Ok([d1 EXCEPT !.audit[a] = Append(@, StatusChangeRow(memStatus, new, by)),
                                !.cache = FALSE], new)

ChangeStatus(d, a, memStatus, new, by, fault) ==
    IF memStatus = new THEN Ok(d, memStatus)
    ELSE IF fault = "save" THEN Raise(d, new)
    ELSE LET d1 == [d EXCEPT !.status[a] = new]
         IN  IF fault = "create" THEN Raise(d1, new)
             ELSE Ok([d1 EXCEPT !.audit[a] = Append(@, StatusChangeRow(memStatus, new, by)),
                                !.cache = FALSE], new)

transition_status(d, a, memStatus, new, by, fault) ==
    ChangeStatus(d, a, memStatus, new, by, fault)

set_call_failed(d, a, memStatus, fault) ==
    transition_status(d, a, memStatus, CALL_FAILED, Null, fault)
set_qualified(d, a, memStatus, fault) ==
    transition_status(d, a, memStatus, QUALIFIED, Null, fault)
set_not_qualified(d, a, memStatus, fault) ==
    transition_status(d, a, memStatus, NOT_QUALIFIED, Null, fault)
set_followup_status(d, a, memStatus, new, fault) ==
    transition_status(d, a, memStatus, new, Null, fault)
set_closed(d, a, memStatus, fault) ==
    transition_status(d, a, memStatus, CLOSED, Null, fault)

set_awaiting_cv(d, a, memStatus, rejected, fault) ==
    transition_status(d, a, memStatus,
                      IF rejected THEN AWAITING_CV_REJECTED ELSE AWAITING_CV, Null, fault)

set_callback_scheduled(d, a, memStatus, callback_at, by, fault) ==
    Atomic(d,
        IF callback_at # NoTime /\ fault = "field" THEN Raise(d, memStatus)
        ELSE LET d1 == IF callback_at # NoTime
                       THEN [d EXCEPT !.cbAt[a] = callback_at] ELSE d
             IN  transition_status(d1, a, memStatus, CALLBACK_SCHEDULED, by, fault))

set_needs_human(d, a, memStatus, reason, fault) ==
    Atomic(d,
        IF fault = "field" THEN Raise(d, memStatus)
        ELSE transition_status([d EXCEPT !.nhReason[a] = reason], a, memStatus,
                               NEEDS_HUMAN, Null, fault))

set_cv_received(d, a, memStatus, rejected, changed_by, t, fault) ==
    Atomic(d,
        IF fault = "field" THEN Raise(d, memStatus)
        ELSE transition_status([d EXCEPT !.cvAt[a] = t], a, memStatus,
                               IF rejected THEN CV_RECEIVED_REJECTED ELSE CV_RECEIVED,
                               changed_by, fault))

-----------------------------------------------------------------------------
(* Call rows and the ElevenLabs status mapping, src/calls/utils.py *)

INITIATED == "initiated"
IN_PROGRESS == "in_progress"
COMPLETED == "completed"
FAILED == "failed"
NO_ANSWER == "no_answer"
BUSY == "busy"

CallStatus == {INITIATED, IN_PROGRESS, COMPLETED, FAILED, NO_ANSWER, BUSY}

_TERMINAL_STATUSES == {COMPLETED, FAILED, NO_ANSWER, BUSY}

CallIds == DOMAIN db.calls

map_elevenlabs_status(raw) ==
    CASE raw \in {"done", "completed"} -> COMPLETED
      [] raw = "failed" -> FAILED
      [] raw = "no_answer" -> NO_ANSWER
      [] raw = "busy" -> BUSY
      [] raw \in {"in_progress", "processing"} -> IN_PROGRESS
      [] OTHER -> IN_PROGRESS

\* Rows of one application, and the next attempt number (application.calls.count() + 1)
CallsOf(d, a) == {c \in DOMAIN d.calls : d.calls[c].app = a}
NextAttempt(d, a) == Cardinality(CallsOf(d, a)) + 1

NewCall(d, a, conv, batch, t) ==
    [app |-> a, attempt |-> NextAttempt(d, a), status |-> INITIATED,
     conv |-> conv, batch |-> batch, initiated_at |-> t, ended_at |-> NoTime,
     transcript |-> ""]

\* Apply a payload to the in-memory Call: the part of the reducer before the save.
ReduceCall(call, data, t) ==
    LET st == map_elevenlabs_status(data.status)
    IN  [call EXCEPT !.status = st,
                     !.transcript = IF data.transcript # "" THEN data.transcript ELSE @,
                     !.ended_at = IF st \in _TERMINAL_STATUSES THEN t ELSE @]

\* The reducer stopping at CALL_COMPLETED.
ReduceWritesNoScoring(st) ==
    IF st = COMPLETED THEN <<CALL_COMPLETED>>
    ELSE IF st \in {FAILED, NO_ANSWER, BUSY} THEN <<CALL_FAILED>>
    ELSE <<>>

\* The values the reducer saves into Application.status, in order.
ReduceWrites(st) ==
    IF st = COMPLETED THEN <<CALL_COMPLETED, SCORING>>
    ELSE IF st \in {FAILED, NO_ANSWER, BUSY} THEN <<CALL_FAILED>>
    ELSE <<>>

\* application.status = v; application.save(update_fields=["status", ...]), for each v
RECURSIVE SaveStatus(_, _, _)
SaveStatus(d, a, writes) ==
    IF writes = <<>> THEN d
    ELSE SaveStatus([d EXCEPT !.status[a] = Head(writes)], a, Tail(writes))

\* The reducer's writes of Application.status: direct saves, no StatusChange row.
ReduceApplication(d, a, st) == SaveStatus(d, a, ReduceWrites(st))

\* apply_call_result(call, data): call is the in-memory row read earlier, saved whole.
apply_call_result(d, c, memCall, data, t) ==
    LET call2 == ReduceCall(memCall, data, t)
        d1 == [d EXCEPT !.calls[c] = call2]
    IN  ReduceApplication(d1, call2.app, call2.status)

-----------------------------------------------------------------------------
(* Positions, src/positions/models.py, and the calling-hour gate *)

DEFAULT_CALLING_HOUR_START == 10
DEFAULT_CALLING_HOUR_END == 18
DEFAULT_FOLLOW_UP_INTERVAL_HOURS == 24
DEFAULT_REJECTED_CV_TIMEOUT_DAYS == 7
DEFAULT_CALL_RETRY_MAX == 2

OPEN == "open"

\* The hours at which the scheduler is observed to run: around both window edges.
Hours == {DEFAULT_CALLING_HOUR_START - 1, DEFAULT_CALLING_HOUR_START,
          DEFAULT_CALLING_HOUR_END - 1, DEFAULT_CALLING_HOUR_END}

\* The gate with the upper bound included.
IsWithinCallingHoursInclusive(position, current_hour) ==
    IF position.start >= position.end THEN FALSE
    ELSE position.start <= current_hour /\ current_hour <= position.end

_is_within_calling_hours(position, current_hour) ==
    IF position.start >= position.end THEN FALSE
    ELSE position.start <= current_hour /\ current_hour < position.end

-----------------------------------------------------------------------------
(* ElevenLabsService, src/calls/services.py *)

ConvIds == {"conv_1", "conv_2"}
BatchId == "batch_1"

UsedConvIds(d) == {d.calls[c].conv : c \in DOMAIN d.calls} \ {Null}

\* Conversation ids are opaque tokens: the next id the provider issues stands
\* for any id it has not issued yet.
FreshConvIds(d) ==
    IF ConvIds \subseteq UsedConvIds(d) THEN {}
    ELSE {CHOOSE x \in ConvIds \ UsedConvIds(d) : TRUE}

\* What the outbound-call endpoint answers: an error, a response without any of
\* the identifier keys, or a response carrying a fresh conversation id.
ApiAnswers(d) == {"error", Null} \cup FreshConvIds(d)

\* initiate_outbound_call after a successful POST: the Call row and the direct
\* write of CALL_IN_PROGRESS, in one atomic block.
initiate_outbound_call(d, a, conv, t) ==
    [d EXCEPT !.calls = Append(@, NewCall(d, a, conv, Null, t)),
              !.status[a] = CALL_IN_PROGRESS]

\* Only the first application of the chunk gets its Call row and its status.
SubmitBatchChunkFirstOnly(d, apps, t) ==
    IF apps = <<>> THEN d
    ELSE [d EXCEPT !.calls = Append(@, NewCall(d, Head(apps), Null, BatchId, t)),
                   !.status[Head(apps)] = CALL_IN_PROGRESS]

\* _submit_batch_chunk after a successful POST: one Call per application of the
\* chunk, conversation id NULL, and the direct write of CALL_IN_PROGRESS.
RECURSIVE _submit_batch_chunk(_, _, _)
_submit_batch_chunk(d, apps, t) ==
    IF apps = <<>> THEN d
    ELSE LET a == Head(apps)
             d1 == [d EXCEPT !.calls = Append(@, NewCall(d, a, Null, BatchId, t)),
                             !.status[a] = CALL_IN_PROGRESS]
         IN  _submit_batch_chunk(d1, Tail(apps), t)

\* A set of ids as a sequence, in the order of the queryset.
RECURSIVE SeqOf(_)
SeqOf(S) ==
    IF S = {} THEN <<>>
    ELSE LET m == CHOOSE x \in S : \A y \in S : x <= y
         IN  <<m>> \o SeqOf(S \ {m})

-----------------------------------------------------------------------------
(* Job 1: process_call_queue, src/scheduler/jobs.py *)

\* The queue filter without the calling-hour gate.
EligibleIgnoringHours(d, h) ==
    {a \in DOMAIN d.status : d.status[a] = CALL_QUEUED /\ d.pos[a].status = OPEN}

Eligible(d, h) ==
    {a \in DOMAIN d.status :
        /\ d.status[a] = CALL_QUEUED
        /\ d.pos[a].status = OPEN
        /\ _is_within_calling_hours(d.pos[a], h)}

\* The callback queue without the callback_scheduled_at__lte filter.
DueCallbacksAnyTime(d, h, t) ==
    {a \in DOMAIN d.status :
        /\ d.status[a] = CALLBACK_SCHEDULED
        /\ d.pos[a].status = OPEN
        /\ _is_within_calling_hours(d.pos[a], h)}

DueCallbacks(d, h, t) ==
    {a \in DOMAIN d.status :
        /\ d.status[a] = CALLBACK_SCHEDULED
        /\ d.cbAt[a] # NoTime /\ d.cbAt[a] <= t
        /\ d.pos[a].status = OPEN
        /\ _is_within_calling_hours(d.pos[a], h)}

\* The except branch of the batch submission: every application of the batch that
\* is still CALL_QUEUED is failed in its own atomic block; an error is logged only.
RECURSIVE FailQueued(_, _, _)
FailQueued(d, apps, fault) ==
    IF apps = <<>> THEN d
    ELSE LET a == Head(apps)
             r == IF d.status[a] = CALL_QUEUED
                  THEN Atomic(d, set_call_failed(d, a, CALL_QUEUED, fault[a]))
                  ELSE Ok(d, d.status[a])
         IN  FailQueued(r.db, Tail(apps), fault)

\* _attempt_call for every due callback; an error of set_call_failed ends the job.
RECURSIVE AttemptCalls(_, _, _, _, _)
AttemptCalls(d, apps, answer, fault, t) ==
    IF apps = <<>> THEN d
    ELSE LET a == Head(apps)
         IN  IF answer[a] = "error"
             THEN LET r == Atomic(d, set_call_failed(d, a, CALLBACK_SCHEDULED, fault[a]))
                  IN  IF r.raised THEN r.db
                      ELSE AttemptCalls(r.db, Tail(apps), answer, fault, t)
             ELSE AttemptCalls(initiate_outbound_call(d, a, answer[a], t),
                               Tail(apps), answer, fault, t)

process_call_queue(d, h, t, batchOk, answer, fault) ==
    LET el == Eligible(d, h)
        d1 == IF el = {} THEN d
              ELSE IF batchOk THEN _submit_batch_chunk(d, SeqOf(el), t)
              ELSE FailQueued(d, SeqOf(el), fault)
    IN  AttemptCalls(d1, SeqOf(DueCallbacks(d1, h, t)), answer, fault, t)

\* CallNowView.post
CALLABLE_STATUSES == {PENDING_CALL, CALL_QUEUED, CALL_FAILED, CALLBACK_SCHEDULED}

-----------------------------------------------------------------------------
(* The voice-agent webhook, src/webhooks/views.py *)

FindByConv(d, conv) == {c \in DOMAIN d.calls : d.calls[c].conv = conv}

\* The filter of _bind_batch_call and its order_by("-initiated_at").first()
BindCandidates(d, uid) ==
    {c \in DOMAIN d.calls :
        /\ d.calls[c].app = uid
        /\ d.calls[c].status = INITIATED
        /\ d.calls[c].conv = Null}

MostRecent(d, S) ==
    {c \in S : \A x \in S : d.calls[x].initiated_at <= d.calls[c].initiated_at}

\* Steps 5 to 7 of elevenlabs_webhook: the view's own copy of the reducer.
elevenlabs_webhook_persist(d, c, memCall, data, t) ==
    LET call2 == ReduceCall(memCall, data, t)
        d1 == [d EXCEPT !.calls[c] = call2]
    IN  ReduceApplication(d1, call2.app, call2.status)

-----------------------------------------------------------------------------
(* ClaudeService.evaluate_call, src/evaluations/services.py *)

QUALIFIED_OUTCOME == "qualified"
NOT_QUALIFIED_OUTCOME == "not_qualified"
CALLBACK_REQUESTED == "callback_requested"
NEEDS_HUMAN_OUTCOME == "needs_human"
Outcomes == {QUALIFIED_OUTCOME, NOT_QUALIFIED_OUTCOME, CALLBACK_REQUESTED, NEEDS_HUMAN_OUTCOME}

\* A parsed answer whose "qualified" value agrees with its "outcome".
Answer(outcome, callback_at) ==
    [outcome |-> outcome, callback_at |-> callback_at,
     qualified |-> (outcome = QUALIFIED_OUTCOME)]

\* What the LLM call yields after parsing and validation: "error" stands for an API
\* failure, unparseable JSON, a missing field or an unknown outcome.
LLMAnswers(t) ==
    {Answer(o, NoTime) : o \in Outcomes \cup {"error"}}
      \cup {Answer(CALLBACK_REQUESTED, t)}

\* A response of the LLM as evaluate_call looks at it: the stop reason, whether the
\* text parses into a JSON object (strictly or after repair), the keys of the
\* object, the value of "outcome".
REQUIRED_FIELDS == {"outcome", "qualified", "score", "reasoning"}

LLMResponses ==
    [stop : {"end_turn", "max_tokens"}, json : BOOLEAN,
     keys : {REQUIRED_FIELDS} \cup {REQUIRED_FIELDS \ {f} : f \in REQUIRED_FIELDS},
     outcome : Outcomes \cup {"maybe"}]

LLMError == Answer("error", NoTime)

\* Validation that takes a missing score or reasoning as its default.
ParseEvaluationLenient(resp) ==
    IF resp.stop = "max_tokens" \/ ~resp.json THEN LLMError
    ELSE IF {"outcome", "qualified"} \ resp.keys # {} THEN LLMError
    ELSE IF resp.outcome \notin Outcomes THEN LLMError
    ELSE Answer(resp.outcome, NoTime)

\* _send_message, _parse_claude_json and the validation of evaluate_call: each
\* failure raises ClaudeServiceError before anything is written.
ParseEvaluation(resp) ==
    IF resp.stop = "max_tokens" THEN LLMError
    ELSE IF ~resp.json THEN LLMError
    ELSE IF REQUIRED_FIELDS \ resp.keys # {} THEN LLMError
    ELSE IF resp.outcome \notin Outcomes THEN LLMError
    ELSE Answer(resp.outcome, NoTime)

EvalsOf(d, c) == {i \in DOMAIN d.evals : d.evals[i].call = c}

\* The writes of the atomic block of evaluate_call: the LLMEvaluation row, the
\* transition of the outcome, the score fields.
EvalWrite(d, c, memStatus, llm, fault) ==
    LET a  == d.calls[c].app
        d1 == [d EXCEPT !.evals = Append(@, [call |-> c, outcome |-> llm.outcome])]
        r  == CASE llm.outcome = QUALIFIED_OUTCOME -> set_qualified(d1, a, memStatus, fault)
                [] llm.outcome = NOT_QUALIFIED_OUTCOME -> set_not_qualified(d1, a, memStatus, fault)
                [] llm.outcome = CALLBACK_REQUESTED ->
                       set_callback_scheduled(d1, a, memStatus, llm.callback_at, Null, fault)
                [] OTHER -> set_needs_human(d1, a, memStatus, "llm", fault)
    IN  IF r.raised THEN r
        ELSE Ok([r.db EXCEPT !.qualified[a] = llm.qualified], r.status)

\* The body of the atomic block, run while the Call row is locked: the second
\* look for an existing evaluation, then the writes.
EvalCommit(d, c, memStatus, llm, fault) ==
    IF EvalsOf(d, c) # {} THEN Ok(d, memStatus)
    ELSE EvalWrite(d, c, memStatus, llm, fault)

\* send_cv_request, src/messaging/services.py: the messages go out, then the
\* transition; no atomic block around it. sent = FALSE: creating a Message failed.
send_cv_request(d, a, memStatus, qualified, sent, fault) ==
    IF ~sent THEN Raise(d, memStatus)
    ELSE set_awaiting_cv(d, a, memStatus, ~qualified, fault)

\* The CV request without the try/except around it.
TriggerCvRequestPropagating(d, a, memStatus, outcome, sent, fault) ==
    send_cv_request(d, a, memStatus, outcome = QUALIFIED_OUTCOME, sent, fault)

\* _trigger_cv_request: whatever send_cv_request raises is logged and dropped.
_trigger_cv_request(d, a, memStatus, outcome, sent, fault) ==
    Ok(send_cv_request(d, a, memStatus, outcome = QUALIFIED_OUTCOME, sent, fault).db, memStatus)

\* evaluate_call run start to end with nothing interleaved. in is the record of
\* what the outside world does to this run: [llm, fault, sent, cvfault].
evaluate_call(d, c, memStatus, in) ==
    IF EvalsOf(d, c) # {} THEN Ok(d, memStatus)
    ELSE IF in.llm.outcome = "error" THEN Raise(d, memStatus)
    ELSE LET r == Atomic(d, EvalCommit(d, c, memStatus, in.llm, in.fault))
         IN  IF r.raised THEN r
             ELSE IF in.llm.outcome \in {QUALIFIED_OUTCOME, NOT_QUALIFIED_OUTCOME}
                  THEN _trigger_cv_request(r.db, d.calls[c].app, r.status,
                                           in.llm.outcome, in.sent, in.cvfault)
                  ELSE r

\* trigger_evaluation: every error of evaluate_call is logged and dropped.
trigger_evaluation(d, c, memStatus, in) == evaluate_call(d, c, memStatus, in).db

NoEval == [llm |-> Answer("error", NoTime), fault |-> "none",
           sent |-> TRUE, cvfault |-> "none"]

\* One run meets at most one failure, and a failure is drawn only for a write
\* that the run reaches.
EvalInputs(t) ==
    {i \in [llm : LLMAnswers(t), fault : CompoundFaults, sent : BOOLEAN, cvfault : Faults] :
        /\ i.fault # "none" => i.sent /\ i.cvfault = "none" /\ i.llm.outcome # "error"
        /\ i.fault = "field" =>
               \/ i.llm.outcome = NEEDS_HUMAN_OUTCOME
               \/ i.llm.outcome = CALLBACK_REQUESTED /\ i.llm.callback_at # NoTime
        /\ ~i.sent => i.cvfault = "none"
        /\ ~i.sent \/ i.cvfault # "none" =>
               i.llm.outcome \in {QUALIFIED_OUTCOME, NOT_QUALIFIED_OUTCOME}}

-----------------------------------------------------------------------------
(* Job 2: sync_stuck_calls, src/scheduler/jobs.py *)

STUCK_CALL_THRESHOLD_MINUTES == 15
BATCH_ORPHAN_THRESHOLD_MINUTES == 60

RawStatuses == {"done", "failed", "no_answer", "processing"}
\* A payload: its status and its transcript, which only a finished conversation has.
CallData ==
    {[status |-> s, transcript |-> ""] : s \in RawStatuses}
      \cup {[status |-> "done", transcript |-> "hello"]}
NoResponse == [status |-> "none", transcript |-> ""]

StuckCalls(d, t) ==
    {c \in DOMAIN d.calls :
        /\ d.calls[c].status \in {INITIATED, IN_PROGRESS}
        /\ d.calls[c].initiated_at < t - STUCK_CALL_THRESHOLD_MINUTES
        /\ d.calls[c].conv # Null}

OrphanCalls(d, t) ==
    {c \in DOMAIN d.calls :
        /\ d.calls[c].status = INITIATED
        /\ d.calls[c].initiated_at < t - BATCH_ORPHAN_THRESHOLD_MINUTES
        /\ d.calls[c].conv = Null
        /\ d.calls[c].batch # Null}

\* _update_call_from_poll: the reducer on the row as it was read into stuck_calls,
\* then the evaluation when the call completed (its application is SCORING in memory).
_update_call_from_poll(d, c, memCall, data, in, t) ==
    LET d1 == apply_call_result(d, c, memCall, data, t)
    IN  IF d1.calls[c].status = COMPLETED THEN trigger_evaluation(d1, c, SCORING, in)
        ELSE d1

RECURSIVE PollStuck(_, _, _, _, _, _)
PollStuck(d, calls, d0, poll, in, t) ==
    IF calls = <<>> THEN d
    ELSE LET c == Head(calls)
             d1 == IF poll[c] = NoResponse THEN d
                   ELSE _update_call_from_poll(d, c, d0.calls[c], poll[c], in, t)
         IN  PollStuck(d1, Tail(calls), d0, poll, in, t)

\* The orphan loop: Call.status and ended_at saved with update_fields, then
\* set_call_failed, in one atomic block per call; an error is logged only.
RECURSIVE EscalateOrphans(_, _, _, _, _)
EscalateOrphans(d, calls, d0, fault, t) ==
    IF calls = <<>> THEN d
    ELSE LET c  == Head(calls)
             a  == d0.calls[c].app
             d1 == [d EXCEPT !.calls[c].status = FAILED, !.calls[c].ended_at = t]
             r  == Atomic(d, set_call_failed(d1, a, d0.status[a], fault))
         IN  EscalateOrphans(r.db, Tail(calls), d0, fault, t)

\* The job returns before the orphan section when no call is stuck.
sync_stuck_calls(d, t, poll, in, fault) ==
    LET stuck == StuckCalls(d, t)
    IN  IF stuck = {} THEN d
        ELSE LET d1 == PollStuck(d, SeqOf(stuck), d, poll, in, t)
             IN  EscalateOrphans(d1, SeqOf(OrphanCalls(d1, t)), d1, fault, t)

-----------------------------------------------------------------------------
(* CV intake: cvs/helpers.py, cvs/services.py, applications/services.py *)

advance_application_status(d, a, memStatus, t, fault) ==
    IF memStatus = AWAITING_CV_REJECTED THEN set_cv_received(d, a, memStatus, TRUE, Null, t, fault)
    ELSE IF memStatus \in AWAITING_CV_STATUSES THEN set_cv_received(d, a, memStatus, FALSE, Null, t, fault)
    ELSE Ok(d, memStatus)

\* CVUpload.MatchMethod, src/cvs/models.py
EXACT_EMAIL == "exact_email"
EXACT_PHONE == "exact_phone"
SUBJECT_ID == "subject_id"
FUZZY_NAME == "fuzzy_name"
CV_CONTENT == "cv_content"
MANUAL == "manual"

\* A database error in the INSERT of the CVUpload row, next to the errors of the
\* compound transition that follows it.
UploadFaults == CompoundFaults \cup {"upload"}

CVUploadRow(candidate, a, file_path, match_method, needs_review) ==
    [candidate |-> candidate, application |-> a, file_path |-> file_path,
     match_method |-> match_method, needs_review |-> needs_review]

\* The loop of _process_candidate_match over the candidate's awaiting applications:
\* one CVUpload row, then the transition, per application; the first error ends it.
RECURSIVE AttachAll(_, _, _, _, _, _)
AttachAll(d, apps, d0, row, t, fault) ==
    IF apps = <<>> THEN Ok(d, Null)
    ELSE LET a == Head(apps)
         IN  IF fault[a] = "upload" THEN Raise(d, Null)
             ELSE LET d1 == [d EXCEPT !.cvs = Append(@, [row EXCEPT !.application = a])]
                      r == advance_application_status(d1, a, d0.status[a], t, fault[a])
                  IN  IF r.raised THEN r ELSE AttachAll(r.db, Tail(apps), d0, row, t, fault)

AwaitingApps(d) == {a \in DOMAIN d.status : d.status[a] \in AWAITING_CV_STATUSES}

\* Only the lowest-numbered awaiting application of the candidate.
FirstAwaitingAppOf(d, candidate) ==
    LET apps == {a \in AwaitingApps(d) : d.cand[a] = candidate}
    IN  {a \in apps : \A b \in apps : a <= b}

\* The queryset at the head of _process_candidate_match.
AwaitingAppsOf(d, candidate) == {a \in AwaitingApps(d) : d.cand[a] = candidate}

\* The outcome of one matching attempt: matched is the truthiness of the dict
\* _process_candidate_match returns, raised an exception that left it.
Matched(d, candidate, match_method) ==
    [db |-> d, raised |-> FALSE, matched |-> TRUE, candidate |-> candidate, method |-> match_method]
NoMatch(d) ==
    [db |-> d, raised |-> FALSE, matched |-> FALSE, candidate |-> 0, method |-> Null]
MatchError(d, candidate, match_method) ==
    [db |-> d, raised |-> TRUE, matched |-> FALSE, candidate |-> candidate, method |-> match_method]

\* file_path is the uuid-prefixed path _save_cv_file returned, the same for every row.
_process_candidate_match(d, candidate, match_method, needs_review, file_path, t, fault) ==
    LET applications == AwaitingAppsOf(d, candidate)
    IN  IF applications = {} THEN NoMatch(d)
        ELSE LET r == Atomic(d, AttachAll(d, SeqOf(applications), d,
                                          CVUploadRow(candidate, 0, file_path, match_method, needs_review),
                                          t, fault))
             IN  IF r.raised THEN MatchError(r.db, candidate, match_method)
                 ELSE Matched(r.db, candidate, match_method)

-----------------------------------------------------------------------------
(* Jobs 3 and 4: check_cv_followups and close_stale_rejected, src/scheduler/jobs.py *)

_FOLLOWUP_TRANSITIONS(st) ==
    CASE st = AWAITING_CV -> CV_FOLLOWUP_1
      [] st = CV_FOLLOWUP_1 -> CV_FOLLOWUP_2
      [] st = CV_FOLLOWUP_2 -> CV_OVERDUE

\* The queryset without its qualified=True filter.
PendingFollowupsAnyone(d) ==
    {a \in DOMAIN d.status :
        /\ d.status[a] \in {AWAITING_CV, CV_FOLLOWUP_1, CV_FOLLOWUP_2}
        /\ d.cvAt[a] = NoTime}

\* The queryset of check_cv_followups. qualified is TRUE exactly when the column
\* holds True.
PendingFollowups(d) ==
    {a \in DOMAIN d.status :
        /\ d.status[a] \in {AWAITING_CV, CV_FOLLOWUP_1, CV_FOLLOWUP_2}
        /\ d.qualified[a]
        /\ d.cvAt[a] = NoTime}

RECURSIVE Rows(_, _)
Rows(d, apps) ==
    IF apps = <<>> THEN <<>>
    ELSE <<[app |-> Head(apps), status |-> d.status[Head(apps)]]>> \o Rows(d, Tail(apps))

\* The body of the loop for one row that is due: the follow-up message and the
\* transition in one atomic block, on the row as the queryset returned it.
FollowupStep(d, row, sent, fault) ==
    Atomic(d, IF row.status # CV_FOLLOWUP_2 /\ ~sent THEN Raise(d, row.status)
              ELSE set_followup_status(d, row.app, row.status,
                                       _FOLLOWUP_TRANSITIONS(row.status), fault))

StaleRejected(d) ==
    {a \in DOMAIN d.status :
        \/ d.status[a] = AWAITING_CV_REJECTED /\ d.cvAt[a] = NoTime
        \/ d.status[a] = CV_RECEIVED_REJECTED /\ d.cvAt[a] # NoTime
        \/ d.status[a] = CV_OVERDUE}

RECURSIVE CloseAll(_, _, _, _)
CloseAll(d, apps, d0, fault) ==
    IF apps = <<>> THEN d
    ELSE LET a == Head(apps)
         IN  CloseAll(Atomic(d, set_closed(d, a, d0.status[a], fault[a])).db, Tail(apps), d0, fault)

\* The loop over to_close ended by the first failure.
RECURSIVE CloseAllAborting(_, _, _, _)
CloseAllAborting(d, apps, d0, fault) ==
    IF apps = <<>> THEN d
    ELSE LET a == Head(apps)
             r == Atomic(d, set_closed(d, a, d0.status[a], fault[a]))
         IN  IF r.raised THEN r.db ELSE CloseAllAborting(r.db, Tail(apps), d0, fault)

\* The loop over to_close: try / atomic / set_closed / except, row by row.
CloseRows(d, apps, d0, fault) == CloseAll(d, apps, d0, fault)

close_stale_rejected(d, due, fault) == CloseRows(d, SeqOf(due), d, fault)

-----------------------------------------------------------------------------
(* The calling pipeline, one action per handler *)

Apps == 1 .. NumApps

Position == [start |-> DEFAULT_CALLING_HOUR_START, end |-> DEFAULT_CALLING_HOUR_END,
             status |-> OPEN, call_retry_max |-> DEFAULT_CALL_RETRY_MAX,
             follow_up_interval_hours |-> DEFAULT_FOLLOW_UP_INTERVAL_HOURS,
             rejected_cv_timeout_days |-> DEFAULT_REJECTED_CV_TIMEOUT_DAYS]

TickMinutes == BATCH_ORPHAN_THRESHOLD_MINUTES + 1

\* hour is the wall-clock hour at which a handler dispatched calls (0 elsewhere).
Ev(op, a, raised, new) ==
    [op |-> op, app |-> a, raised |-> raised, new |-> new, hour |-> 0]

Job(op) == Ev(op, 0, FALSE, Null)

At(e, h) == [e EXCEPT !.hour = h]

ManualRows(d, a) == {i \in DOMAIN d.audit[a] : d.audit[a][i].by = USER}

Bounded(d) ==
    /\ \A a \in DOMAIN d.status : Len(d.audit[a]) <= MaxAudit
    /\ \A a \in DOMAIN d.status : Cardinality(ManualRows(d, a)) <= MaxManual
    /\ Len(d.calls) <= MaxCalls

\* The rows after the applications were created (form submission): no call yet.
EmptyDb ==
    [status    |-> [a \in Apps |-> PENDING_CALL],
     cbAt      |-> [a \in Apps |-> NoTime],
     nhReason  |-> [a \in Apps |-> Null],
     cvAt      |-> [a \in Apps |-> NoTime],
     qualified |-> [a \in Apps |-> FALSE],
     audit     |-> [a \in Apps |-> <<>>],
     pos       |-> [a \in Apps |-> Position],
     calls     |-> <<>>,
     evals     |-> <<>>,
     cand      |-> [a \in Apps |-> 1],
     cvs       |-> <<>>,
     unmatched |-> 0,
     cache     |-> FALSE]

Init ==
    /\ db = EmptyDb
    /\ now = 0
    /\ ev = Job("init")
    /\ sweep = <<>>
    /\ procs = <<>>

\* A handler that runs start to end against the rows: d is what it leaves behind.
Handler(d, e) ==
    /\ Bounded(d)
    /\ db' = d
    /\ ev' = e
    /\ UNCHANGED <<now, sweep, procs>>

Tick ==
    /\ now < MaxTicks * TickMinutes
    /\ now' = now + TickMinutes
    /\ UNCHANGED <<db, ev, sweep, procs>>

\* _queue_applications_for_calling, for one selected application
QueueForCalling ==
    \E a \in AppIds, fault \in Faults :
        /\ db.status[a] = PENDING_CALL
        /\ LET r == ChangeStatus(db, a, db.status[a], CALL_QUEUED, USER, fault)
           IN  Handler(r.db, Ev("queue_for_calling", a, r.raised, CALL_QUEUED))

\* ScheduleCallbackView.post: the form holds a valid datetime
ScheduleCallback ==
    \E a \in AppIds, fault \in CompoundFaults :
        LET r == set_callback_scheduled(db, a, db.status[a], now, USER, fault)
        IN  Handler(r.db, Ev("schedule_callback", a, r.raised, CALLBACK_SCHEDULED))

\* CallNowView.post: the status check, then initiate_outbound_call
CallNow ==
    \E a \in AppIds, answer \in ApiAnswers(db), h \in Hours :
        /\ db.status[a] \in CALLABLE_STATUSES
        /\ Handler(IF answer = "error" THEN db ELSE initiate_outbound_call(db, a, answer, now),
                   At(Ev("call_now", a, answer = "error", Null), IF answer = "error" THEN 0 ELSE h))

\* process_call_queue at hour h. An input is drawn only for a request the run makes.
ProcessCallQueue ==
    \E h \in Hours :
        LET el  == Eligible(db, h)
            due == DueCallbacks(db, h, now)
        IN  \E batchOk \in IF el = {} THEN {TRUE} ELSE BOOLEAN,
               answer \in [due -> ApiAnswers(db)], fault \in [el \cup due -> Faults] :
                /\ \A a, b \in due : a # b /\ answer[a] = answer[b] => answer[a] \in {"error", Null}
                /\ \A a \in el : batchOk => fault[a] = "none"
                /\ \A a \in due : answer[a] # "error" => fault[a] = "none"
                /\ Handler(process_call_queue(db, h, now, batchOk, answer, fault),
                           At(Job("process_call_queue"), IF el \cup due = {} THEN 0 ELSE h))

\* _bind_batch_call once its row is chosen: the id is set and saved.
_bind_batch_call(d, c, conv) == [d EXCEPT !.calls[c].conv = conv]

\* Steps 5 to 8 of elevenlabs_webhook on the Call it located.
WebhookOn(d, c, data) ==
    LET d2 == elevenlabs_webhook_persist(d, c, d.calls[c], data, now)
        e  == Ev("webhook", d.calls[c].app, FALSE, Null)
    IN  IF d2.calls[c].status = COMPLETED
        THEN \E in \in IF EvalsOf(d2, c) = {} THEN EvalInputs(now) ELSE {NoEval} :
                 Handler(trigger_evaluation(d2, c, SCORING, in), e)
        ELSE Handler(d2, e)

\* elevenlabs_webhook for a payload that passed authentication and parsing:
\* conv is its conversation id, uid the application id of its metadata (0: none).
ElevenLabsWebhook ==
    \E conv \in UsedConvIds(db) \cup FreshConvIds(db), data \in CallData :
        IF FindByConv(db, conv) # {}
        THEN \E c \in FindByConv(db, conv) : WebhookOn(db, c, data)
        ELSE \E uid \in AppIds \cup {0} :
               LET cands == MostRecent(db, BindCandidates(db, uid))
               IN  IF cands = {}
                   THEN Handler(db, Ev("webhook_call_not_found", uid, FALSE, Null))
                   ELSE \E c \in cands : WebhookOn(_bind_batch_call(db, c, conv), c, data)

SyncStuckCalls ==
    \E poll \in [StuckCalls(db, now) -> CallData \cup {NoResponse}] :
        \E in \in IF \E c \in DOMAIN poll : poll[c].status = "done" /\ EvalsOf(db, c) = {}
                   THEN EvalInputs(now) ELSE {NoEval} :
            \E fault \in IF OrphanCalls(db, now) # {} THEN Faults ELSE {"none"} :
                Handler(sync_stuck_calls(db, now, poll, in, fault), Job("sync_stuck_calls"))

Next ==
    \/ QueueForCalling
    \/ ScheduleCallback
    \/ CallNow
    \/ ProcessCallQueue
    \/ ElevenLabsWebhook
    \/ SyncStuckCalls
    \/ Tick

Spec == Init /\ [][Next]_vars

-----------------------------------------------------------------------------
(* The recruiter's desk and the CV phase, from the end of an evaluation on *)

\* The targets a recruiter is observed to choose in the override form.
OverrideTargets == {CALL_QUEUED, CLOSED}

StatusOverride ==
    \E a \in AppIds, new \in OverrideTargets, fault \in Faults :
        LET r == ChangeStatus(db, a, db.status[a], new, USER, fault)
        IN  Handler(r.db, Ev("status_override", a, r.raised, new))

\* AddNoteView: a StatusChange row with from_status = to_status, no transition.
AddNote ==
    \E a \in AppIds :
        Handler([db EXCEPT !.audit[a] = Append(@, StatusChangeRow(db.status[a], db.status[a], USER))],
                Ev("add_note", a, FALSE, Null))

\* An inbound CV matched to the candidate (the applications are one candidate's).
InboundCV ==
    \E fault \in [AwaitingApps(db) -> CompoundFaults], file_path \in Paths :
        /\ AwaitingApps(db) # {}
        /\ LET r == _process_candidate_match(db, 1, EXACT_EMAIL, FALSE, file_path, now, fault)
           IN  Handler(r.db, Ev("inbound_cv", 0, r.raised, Null))

\* check_cv_followups evaluates its queryset; due are the rows past their interval.
FollowupsRead ==
    /\ sweep = <<>>
    /\ \E due \in SUBSET PendingFollowups(db) :
        /\ due # {}
        /\ sweep' = Rows(db, SeqOf(due))
    /\ ev' = Job("check_cv_followups")
    /\ UNCHANGED <<db, now, procs>>

\* check_cv_followups handles the next row; an error ends the job.
FollowupsStep ==
    /\ sweep # <<>>
    /\ \E sent \in BOOLEAN, fault \in Faults :
        LET r == FollowupStep(db, Head(sweep), sent, fault)
        IN  /\ Bounded(r.db)
            /\ db' = r.db
            /\ sweep' = IF r.raised THEN <<>> ELSE Tail(sweep)
            /\ ev' = Ev("followup", Head(sweep).app, r.raised,
                        _FOLLOWUP_TRANSITIONS(Head(sweep).status))
    /\ UNCHANGED <<now, procs>>

\* close_stale_rejected; due are the rows past the position's timeout.
CloseStaleRejected ==
    \E due \in SUBSET StaleRejected(db) :
        /\ due # {}
        /\ \E fault \in [due -> Faults] :
               Handler(close_stale_rejected(db, due, fault), Job("close_stale_rejected"))

NoFailure(llm) == [llm |-> llm, fault |-> "none", sent |-> TRUE, cvfault |-> "none"]

\* The rows once application a was called, the conversation ended and its
\* evaluation with this outcome went through: the handlers above, run in order.
AfterEvaluation(a, outcome) ==
    LET d1 == initiate_outbound_call(EmptyDb, a, "conv_1", 0)
        d2 == elevenlabs_webhook_persist(d1, 1, d1.calls[1],
                                         [status |-> "done", transcript |-> "hello"], 0)
    IN  trigger_evaluation(d2, 1, SCORING,
                           NoFailure(Answer(outcome, NoTime)))

InitCv ==
    /\ db \in {EmptyDb} \cup {AfterEvaluation(1, o) : o \in {QUALIFIED_OUTCOME, NOT_QUALIFIED_OUTCOME}}
    /\ now = 0
    /\ ev = Job("init")
    /\ sweep = <<>>
    /\ procs = <<>>

NextCv ==
    \/ StatusOverride
    \/ AddNote
    \/ InboundCV
    \/ FollowupsRead
    \/ FollowupsStep
    \/ CloseStaleRejected

SpecCv == InitCv /\ [][NextCv]_vars

-----------------------------------------------------------------------------
(* Concurrent evaluation attempts for one completed Call: evaluate_call step by step *)

Procs == 1 .. MaxProcs

\* The rows once application a was called and the conversation ended: SCORING.
AfterCompleted(a) ==
    LET d1 == initiate_outbound_call(EmptyDb, a, "conv_1", 0)
    IN  elevenlabs_webhook_persist(d1, 1, d1.calls[1],
                                   [status |-> "done", transcript |-> "hello"], 0)

Attempt(pc, in, result) == [pc |-> pc, call |-> 1, in |-> in, result |-> result]

InitEval ==
    /\ db = AfterCompleted(1)
    /\ now = 0
    /\ ev = Job("init")
    /\ sweep = <<>>
    /\ procs = [p \in Procs |-> Attempt("start", NoEval, 0)]

\* The row lock not taken: the read never waits.
LockNeverWaits(ps, p, c) == TRUE

\* Call.objects.select_for_update().get(pk) returns once no other transaction
\* holds the lock of the row.

LockFree(ps, p, c) ==
    \A q \in DOMAIN ps : q # p /\ ps[q].call = c => ps[q].pc \notin {"locked", "write"}

EvalStep(p, d, attempt) ==
    /\ db' = d
    /\ procs' = [procs EXCEPT ![p] = attempt]
    /\ UNCHANGED <<now, ev, sweep>>

\* The fast path: an evaluation that exists is returned (result: its row).
EvalFastPath(p) ==
    /\ procs[p].pc = "start"
    /\ LET ex == EvalsOf(db, procs[p].call)
       IN  IF ex # {} THEN EvalStep(p, db, Attempt("done", NoEval, CHOOSE i \in ex : TRUE))
           ELSE EvalStep(p, db, Attempt("llm", NoEval, 0))

\* The LLM request, parsing and validation; an error ends the attempt.
EvalLLM(p) ==
    /\ procs[p].pc = "llm"
    /\ \E in \in EvalInputs(now) :
          EvalStep(p, db, Attempt(IF in.llm.outcome = "error" THEN "raised" ELSE "lock", in, 0))

EvalLock(p) ==
    /\ procs[p].pc = "lock"
    /\ LockFree(procs, p, procs[p].call)
    /\ EvalStep(p, db, [procs[p] EXCEPT !.pc = "locked"])

\* The second look, under the lock; returning ends the transaction.
EvalRecheck(p) ==
    /\ procs[p].pc = "locked"
    /\ LET ex == EvalsOf(db, procs[p].call)
       IN  IF ex # {} THEN EvalStep(p, db, Attempt("done", procs[p].in, CHOOSE i \in ex : TRUE))
           ELSE EvalStep(p, db, [procs[p] EXCEPT !.pc = "write"])

\* The writes and the commit; the application is SCORING in the attempt's memory.
EvalWriteCommit(p) ==
    /\ procs[p].pc = "write"
    /\ LET in == procs[p].in
           r  == Atomic(db, EvalWrite(db, procs[p].call, SCORING, in.llm, in.fault))
       IN  IF r.raised THEN EvalStep(p, r.db, Attempt("raised", in, 0))
           ELSE EvalStep(p, r.db,
                         Attempt(IF in.llm.outcome \in {QUALIFIED_OUTCOME, NOT_QUALIFIED_OUTCOME}
                                 THEN "cv" ELSE "done", in, Len(r.db.evals)))

\* _trigger_cv_request after the commit
EvalCvRequest(p) ==
    /\ procs[p].pc = "cv"
    /\ LET in == procs[p].in
           a  == db.calls[procs[p].call].app
           st == IF in.llm.outcome = QUALIFIED_OUTCOME THEN QUALIFIED ELSE NOT_QUALIFIED
       IN  EvalStep(p, _trigger_cv_request(db, a, st, in.llm.outcome, in.sent, in.cvfault).db,
                    [procs[p] EXCEPT !.pc = "done"])

NextEval ==
    \E p \in Procs :
        \/ EvalFastPath(p)
        \/ EvalLLM(p)
        \/ EvalLock(p)
        \/ EvalRecheck(p)
        \/ EvalWriteCommit(p)
        \/ EvalCvRequest(p)

SpecEval == InitEval /\ [][NextEval]_vars

-----------------------------------------------------------------------------
(* Near-simultaneous webhook deliveries for batch calls: _bind_batch_call step by step *)

\* The rows once application a went out in a batch, was queued again by the
\* recruiter and went out in the next batch at t: two unbound INITIATED calls.
AfterTwoBatches(a, t) ==
    LET d1 == _submit_batch_chunk([EmptyDb EXCEPT !.status[a] = CALL_QUEUED], <<a>>, 0)
        d2 == ChangeStatus(d1, a, d1.status[a], CALL_QUEUED, USER, "none").db
    IN  _submit_batch_chunk(d2, <<a>>, t)

Delivery(pc, conv, uid, target, result) ==
    [pc |-> pc, conv |-> conv, uid |-> uid, target |-> target, result |-> result]

InitBind ==
    /\ db \in {AfterTwoBatches(1, t) : t \in {0, TickMinutes}}
    /\ now = TickMinutes
    /\ ev = Job("init")
    /\ sweep = <<>>
    /\ procs \in [Procs -> {Delivery("start", conv, 1, 0, 0) : conv \in ConvIds}]

\* The unique index of Call.eleven_labs_conversation_id (NULLs apart).
UniqueConversationId(d, c, conv) ==
    \A x \in DOMAIN d.calls : x # c => d.calls[x].conv # conv

\* The row lock not taken: the query never waits.
RowNeverWaits(ps, p, c) == TRUE

\* select_for_update(): the query returns once no other transaction holds the row.
RowFree(ps, p, c) ==
    \A q \in DOMAIN ps : q # p /\ ps[q].target = c => ps[q].pc # "locked"

BindStep(p, d, delivery) ==
    /\ db' = d
    /\ procs' = [procs EXCEPT ![p] = delivery]
    /\ UNCHANGED <<now, ev, sweep>>

\* Step 4 of the view: Call.objects.get(eleven_labs_conversation_id=...)
BindLookup(p) ==
    /\ procs[p].pc = "start"
    /\ LET found == FindByConv(db, procs[p].conv)
       IN  IF found # {}
           THEN BindStep(p, db, [procs[p] EXCEPT !.pc = "done", !.result = CHOOSE c \in found : TRUE])
           ELSE BindStep(p, db, [procs[p] EXCEPT !.pc = "bind"])

\* The query of _bind_batch_call picks its row: the most recent unbound INITIATED
\* call of the application, or none.
BindSelect(p) ==
    /\ procs[p].pc = "bind"
    /\ LET cands == MostRecent(db, BindCandidates(db, procs[p].uid))
       IN  IF cands = {} THEN BindStep(p, db, [procs[p] EXCEPT !.pc = "done"])
           ELSE \E c \in cands : BindStep(p, db, [procs[p] EXCEPT !.pc = "wait", !.target = c])

\* The lock is granted; a row that changed while the query waited and no longer
\* passes the filter is not returned.
BindAcquire(p) ==
    /\ procs[p].pc = "wait"
    /\ RowFree(procs, p, procs[p].target)
    /\ IF procs[p].target \in BindCandidates(db, procs[p].uid)
       THEN BindStep(p, db, [procs[p] EXCEPT !.pc = "locked"])
       ELSE BindStep(p, db, [procs[p] EXCEPT !.pc = "done"])

\* The id is saved and the transaction commits; an IntegrityError is caught by
\* the except clause and the delivery ends as call_not_found.
BindSave(p) ==
    /\ procs[p].pc = "locked"
    /\ IF UniqueConversationId(db, procs[p].target, procs[p].conv)
       THEN BindStep(p, _bind_batch_call(db, procs[p].target, procs[p].conv),
                     [procs[p] EXCEPT !.pc = "done", !.result = procs[p].target])
       ELSE BindStep(p, db, [procs[p] EXCEPT !.pc = "done"])

NextBind ==
    \E p \in Procs :
        \/ BindLookup(p)
        \/ BindSelect(p)
        \/ BindAcquire(p)
        \/ BindSave(p)

SpecBind == InitBind /\ [][NextBind]_vars

-----------------------------------------------------------------------------
(* Properties *)

\* The calls a step created.
NewCalls == DOMAIN db'.calls \ DOMAIN db.calls

\* C1: every change of an application's persisted status from X to Y, made by a
\* handler that reported no error, has its StatusChange rows: the rows the step
\* appended start at X and end at Y.
C1_AuditComplete ==
    [][\A a \in AppIds :
          ~ev'.raised /\ db'.status[a] # db.status[a] =>
              /\ Len(db'.audit[a]) > Len(db.audit[a])
              /\ db'.audit[a][Len(db.audit[a]) + 1].from = db.status[a]
              /\ db'.audit[a][Len(db'.audit[a])].to = db'.status[a]]_vars

\* C4: applying the call-result reducer a second time with the same payload, at a
\* later instant, leaves the Call record as the first application left it.
C4_ReducerIdempotent ==
    \A c \in CallIds, data \in CallData :
        LET once  == apply_call_result(db, c, db.calls[c], data, now)
            twice == apply_call_result(once, c, once.calls[c], data, now + 1)
        IN  twice.calls[c] = once.calls[c]

\* C5: once a Call's status is terminal, no step changes it.
C5_TerminalCallFinal ==
    [][\A c \in CallIds :
          db.calls[c].status \in _TERMINAL_STATUSES =>
              db'.calls[c].status = db.calls[c].status]_vars

\* C6: the scheduler's dispatch (batch queue and callback queue) initiates a Call
\* for an application only at an hour H with calling_hour_start <= H < calling_hour_end.
C6_SchedulerGate ==
    [][ev'.op = "process_call_queue" =>
          \A c \in NewCalls :
              LET position == db.pos[db'.calls[c].app]
              IN  position.start <= ev'.hour /\ ev'.hour < position.end]_vars

\* C6 as stated: every path that initiates a Call does so inside the calling hours.
C6_EveryPathGated ==
    [][\A c \in NewCalls :
          LET position == db.pos[db'.calls[c].app]
          IN  position.start <= ev'.hour /\ ev'.hour < position.end]_vars

\* The scheduler dispatched a call in the last hour of the window.
C6_Witness ==
    /\ ev.op = "process_call_queue"
    /\ ev.hour = DEFAULT_CALLING_HOUR_END - 1
    /\ \E c \in CallIds : db.calls[c].status = INITIATED /\ db.calls[c].initiated_at = now

\* C7: a transition is all-or-nothing: when change_status raises, the status is
\* not persisted; the status is persisted exactly when its StatusChange row is.
C7_AllOrNothing ==
    [][ev'.op \in {"queue_for_calling", "status_override"} =>
          /\ ev'.raised => db'.status = db.status
          /\ \A a \in AppIds :
                db'.status[a] # db.status[a] <=> Len(db'.audit[a]) = Len(db.audit[a]) + 1]_vars

TransitionRows(a) == SelectSeq(db.audit[a], LAMBDA r : r.from # r.to)

\* C8: once the scheduler's follow-up sweep has made its transition of an
\* application, the application's StatusChange rows with from_status # to_status form
\* a chain (each from_status is the previous to_status) that ends at the persisted status.
C8_AuditChain ==
    \A a \in AppIds :
        ev.op = "followup" /\ ev.app = a /\ ~ev.raised =>
            LET rows == TransitionRows(a)
            IN  /\ \A i \in 2 .. Len(rows) : rows[i].from = rows[i - 1].to
                /\ rows # <<>> => rows[Len(rows)].to = db.status[a]

\* C9: a compound transition that fails leaves the rows as they were; one that
\* succeeds has set the adjacent field and the status together.
C9_CompoundAtomic ==
    \A a \in AppIds, mem \in AppStatus, fault \in CompoundFaults :
        LET cb == set_callback_scheduled(db, a, mem, now, USER, fault)
            nh == set_needs_human(db, a, mem, "llm", fault)
        IN  /\ cb.raised => cb.db = db
            /\ ~cb.raised =>
                  cb.db.cbAt[a] = now /\ (mem # CALLBACK_SCHEDULED => cb.db.status[a] = CALLBACK_SCHEDULED)
            /\ nh.raised => nh.db = db
            /\ ~nh.raised =>
                  nh.db.nhReason[a] = "llm" /\ (mem # NEEDS_HUMAN => nh.db.status[a] = NEEDS_HUMAN)
            /\ \A rejected \in BOOLEAN :
                  LET cv == set_cv_received(db, a, mem, rejected, Null, now, fault)
                      to == IF rejected THEN CV_RECEIVED_REJECTED ELSE CV_RECEIVED
                  IN  /\ cv.raised => cv.db = db
                      /\ ~cv.raised =>
                            cv.db.cvAt[a] = now /\ (mem # to => cv.db.status[a] = to)

\* An inbound CV whose transition failed: the application still awaits its CV.
C9_Witness ==
    /\ ev.op = "inbound_cv"
    /\ ev.raised
    /\ \E a \in AppIds : db.status[a] \in AWAITING_CV_STATUSES /\ db.cvAt[a] = NoTime

\* C10: a transition to the status the application already has changes nothing and
\* writes no row; no row written by change_status has from_status = to_status.
C10_SameStatusNoop ==
    \A a \in AppIds, fault \in Faults :
        /\ ChangeStatus(db, a, db.status[a], db.status[a], USER, fault) = Ok(db, db.status[a])
        /\ \A mem \in AppStatus, new \in AppStatus :
              LET r == ChangeStatus(db, a, mem, new, USER, fault)
              IN  \A i \in DOMAIN r.db.audit[a] \ DOMAIN db.audit[a] :
                      r.db.audit[a][i].from # r.db.audit[a][i].to
        /\ \A i \in DOMAIN db.audit[a] :
              db.audit[a][i].by = Null => db.audit[a][i].from # db.audit[a][i].to

\* The recruiter overrode the status to the status the application already had.
C10_Witness ==
    /\ ev.op = "status_override"
    /\ ~ev.raised
    /\ db.status[ev.app] = ev.new
    /\ \A i \in DOMAIN db.audit[ev.app] : db.audit[ev.app][i].to # ev.new

\* C2: under any interleaving of evaluation attempts for a Call, at most one
\* LLMEvaluation row exists for it, and every attempt that returned an evaluation
\* returned that row, the first writer's.
C2_OneEvaluation ==
    /\ \A c \in CallIds : Cardinality(EvalsOf(db, c)) <= 1
    /\ \A p \in DOMAIN procs :
          procs[p].pc \in {"cv", "done"} => EvalsOf(db, procs[p].call) = {procs[p].result}

\* Two attempts ran concurrently to the end: one wrote, the other found its row
\* only in the second look, under the lock.
C2_Witness ==
    /\ Cardinality(EvalsOf(db, 1)) = 1
    /\ \E p, q \in DOMAIN procs :
          /\ p # q
          /\ procs[p].pc = "done" /\ procs[q].pc = "done"
          /\ procs[p].in # NoEval /\ procs[q].in # NoEval

\* C3: under any interleaving of webhook deliveries, a conversation id that is
\* bound to a Call is never replaced, and no two Calls hold the same non-null
\* conversation id.
C3_BindOnce ==
    [][/\ \A c \in CallIds :
             db.calls[c].conv # Null => db'.calls[c].conv = db.calls[c].conv
       /\ \A c1, c2 \in DOMAIN db'.calls :
             c1 # c2 /\ db'.calls[c1].conv # Null => db'.calls[c1].conv # db'.calls[c2].conv]_vars

\* Two deliveries picked the same row: one bound it, the other waited for the
\* lock and ended without a Call.
C3_Witness ==
    \E p, q \in DOMAIN procs :
        /\ p # q
        /\ procs[p].pc = "done" /\ procs[q].pc = "done"
        /\ procs[p].result # 0 /\ procs[q].result = 0
        /\ procs[q].target = procs[p].result
        /\ db.calls[procs[p].result].conv = procs[p].conv

-----------------------------------------------------------------------------
(* process_call_queue step by step, two applications of two positions *)

MaxBatchCalls == 3     \* Call rows while the batch dispatch is observed

\* A position whose window is the last hour of the default window.
LatePosition == [Position EXCEPT !.start = DEFAULT_CALLING_HOUR_END - 1]

\* Two applications waiting for their first call, one per position.
BatchDb ==
    [status    |-> [a \in 1 .. 2 |-> PENDING_CALL],
     cbAt      |-> [a \in 1 .. 2 |-> NoTime],
     nhReason  |-> [a \in 1 .. 2 |-> Null],
     cvAt      |-> [a \in 1 .. 2 |-> NoTime],
     qualified |-> [a \in 1 .. 2 |-> FALSE],
     audit     |-> [a \in 1 .. 2 |-> <<>>],
     pos       |-> [a \in 1 .. 2 |-> IF a = 1 THEN Position ELSE LatePosition],
     calls     |-> <<>>,
     evals     |-> <<>>,
     cand      |-> [a \in 1 .. 2 |-> a],
     cvs       |-> <<>>,
     unmatched |-> 0,
     cache     |-> FALSE]

InitBatch ==
    /\ db = BatchDb
    /\ now = 0
    /\ ev = Job("init")
    /\ sweep = <<>>
    /\ procs = <<>>

\* eligible_for_batch: the instances as loaded, with the hour the job read.
RECURSIVE BatchRows(_, _)
BatchRows(apps, h) ==
    IF apps = <<>> THEN <<>>
    ELSE <<[app |-> Head(apps), status |-> CALL_QUEUED, hour |-> h]>> \o BatchRows(Tail(apps), h)

\* The job reads the queue at hour h.
BatchRead ==
    /\ sweep = <<>>
    /\ \E h \in Hours :
        /\ Eligible(db, h) # {}
        /\ sweep' = BatchRows(SeqOf(Eligible(db, h)), h)
        /\ ev' = At(Job("batch_read"), h)
    /\ UNCHANGED <<db, now, procs>>

RECURSIVE AppsOf(_)
AppsOf(rows) == IF rows = <<>> THEN <<>> ELSE <<Head(rows).app>> \o AppsOf(Tail(rows))

\* initiate_batch_calls answers or raises ElevenLabsError; then the callback queue.
BatchSubmit ==
    /\ sweep # <<>>
    /\ \E batchOk \in BOOLEAN, fault \in [AppIds -> Faults] :
        LET apps == AppsOf(sweep)
            hour == Head(sweep).hour
            d1   == IF batchOk THEN _submit_batch_chunk(db, apps, now)
                    ELSE FailQueued(db, apps, fault)
            due  == DueCallbacks(d1, hour, now)
        IN  /\ batchOk => \A a \in AppIds : fault[a] = "none"
            /\ \A a \in AppIds : fault[a] # "none" =>
                   \E i \in DOMAIN apps : apps[i] = a /\ db.status[a] = CALL_QUEUED
            /\ \E answer \in [due -> ApiAnswers(d1)] :
                   db' = AttemptCalls(d1, SeqOf(due), answer, fault, now)
            /\ Len(db'.calls) <= MaxBatchCalls
            /\ ev' = At(Ev(IF batchOk THEN "batch_submitted" ELSE "batch_failed", 0,
                           \E a \in AppIds : fault[a] # "none", Null), hour)
            /\ sweep' = <<>>
    /\ UNCHANGED <<now, procs>>

NextBatch ==
    \/ QueueForCalling
    \/ CallNow
    \/ BatchRead
    \/ BatchSubmit

SpecBatch == InitBatch /\ [][NextBatch]_vars

\* C11: when the batch submission fails (and the database accepts the writes), every
\* application of the batch that is still CALL_QUEUED ends in CALL_FAILED with one
\* new CALL_QUEUED -> CALL_FAILED row; every queued application outside its calling
\* window stays CALL_QUEUED and gets no row.
C11_BatchFailure ==
    [][ev'.op = "batch_failed" /\ ~ev'.raised =>
          \A a \in AppIds :
              LET inBatch == \E i \in DOMAIN sweep : sweep[i].app = a
                  outside == ~(db.pos[a].start <= ev'.hour /\ ev'.hour < db.pos[a].end)
              IN  /\ inBatch /\ db.status[a] = CALL_QUEUED =>
                        /\ db'.status[a] = CALL_FAILED
                        /\ db'.audit[a] = Append(db.audit[a],
                                                 StatusChangeRow(CALL_QUEUED, CALL_FAILED, Null))
                  /\ db.status[a] = CALL_QUEUED /\ outside =>
                        /\ ~inBatch
                        /\ db'.status[a] = CALL_QUEUED
                        /\ db'.audit[a] = db.audit[a]]_vars

\* A failed batch at an hour inside one window only: the application of the batch
\* is failed, the queued application of the other position is left in the queue.
C11_Witness ==
    /\ ev.op = "batch_failed" /\ ~ev.raised
    /\ db.status[1] = CALL_FAILED
    /\ db.status[2] = CALL_QUEUED
    /\ db.audit[1][Len(db.audit[1])] = StatusChangeRow(CALL_QUEUED, CALL_FAILED, Null)

-----------------------------------------------------------------------------
(* The stuck-call reconciler and the call-result reducer *)

\* C12: a run of sync_stuck_calls in which no poll answers and no write fails
\* escalates every orphaned batch call: the Call is FAILED with ended_at set and
\* its application is CALL_FAILED.
C12_OrphansEscalated ==
    \A c \in OrphanCalls(db, now) :
        LET d2 == sync_stuck_calls(db, now, [x \in StuckCalls(db, now) |-> NoResponse],
                                   NoEval, "none")
        IN  /\ d2.calls[c].status = FAILED
            /\ d2.calls[c].ended_at = now
            /\ d2.status[d2.calls[c].app] = CALL_FAILED

\* The payloads the reducer is given: those of the webhook and the poll, and busy.
ReducerPayloads == CallData \cup {[status |-> "busy", transcript |-> ""]}

C14_RetryScheduling ==
    \A c \in CallIds, raw \in {"failed", "no_answer"} :
        LET a  == db.calls[c].app
            d2 == apply_call_result(db, c, db.calls[c], [status |-> raw, transcript |-> ""], now)
        IN  IF db.calls[c].attempt < db.pos[a].call_retry_max
            THEN d2.status[a] = CALLBACK_SCHEDULED /\ d2.cbAt[a] # NoTime
            ELSE d2.status[a] = CALL_FAILED

-----------------------------------------------------------------------------
(* The evaluation adapter *)

\* The status an outcome leads to.
OutcomeStatus(o) ==
    CASE o = QUALIFIED_OUTCOME -> QUALIFIED
      [] o = NOT_QUALIFIED_OUTCOME -> NOT_QUALIFIED
      [] o = CALLBACK_REQUESTED -> CALLBACK_SCHEDULED
      [] o = NEEDS_HUMAN_OUTCOME -> NEEDS_HUMAN

\* The calls the reducer has just completed: evaluate_call runs on them next.
ToEvaluate ==
    {c \in CallIds : /\ db.calls[c].status = COMPLETED
                     /\ db.status[db.calls[c].app] = SCORING
                     /\ EvalsOf(db, c) = {}}

\* One run of evaluate_call wrote everything or nothing: the LLMEvaluation row, the
\* qualified flag and the outcome's transition with its StatusChange row.
EvaluationUnit(c, in, d2) ==
    LET a     == db.calls[c].app
        o     == in.llm.outcome
        wrote == EvalsOf(d2, c) # {}
        n     == Len(db.audit[a])
    IN  /\ ~wrote => d2 = db
        /\ wrote =>
              /\ Cardinality(EvalsOf(d2, c)) = 1
              /\ \A i \in EvalsOf(d2, c) : d2.evals[i].outcome = o
              /\ d2.qualified[a] = (o = QUALIFIED_OUTCOME)
              /\ Len(d2.audit[a]) > n
              /\ d2.audit[a][n + 1] = StatusChangeRow(SCORING, OutcomeStatus(o), Null)
              /\ o \in {CALLBACK_REQUESTED, NEEDS_HUMAN_OUTCOME} => d2.status[a] = OutcomeStatus(o)
              /\ o = QUALIFIED_OUTCOME => d2.status[a] \in {QUALIFIED, AWAITING_CV}
              /\ o = NOT_QUALIFIED_OUTCOME => d2.status[a] \in {NOT_QUALIFIED, AWAITING_CV_REJECTED}
              /\ o = NEEDS_HUMAN_OUTCOME => d2.nhReason[a] # Null

\* C15: an evaluation is recorded as one unit: the LLMEvaluation row, the
\* application's qualified flag and the outcome's transition are all written or none
\* is; callback_requested leaves CALLBACK_SCHEDULED with callback_scheduled_at equal
\* to the datetime parsed from the response (NULL when it carries none), needs_human
\* leaves NEEDS_HUMAN with its reason.
C15_OutcomeDispatch ==
    \A c \in ToEvaluate, in \in EvalInputs(now) :
        LET d2 == evaluate_call(db, c, SCORING, in).db
        IN  /\ EvaluationUnit(c, in, d2)
            /\ EvalsOf(d2, c) # {} /\ in.llm.outcome = CALLBACK_REQUESTED =>
                  d2.cbAt[db.calls[c].app] = in.llm.callback_at

\* C15, the atomic unit alone: callback_scheduled_at is the parsed datetime whenever
\* the response carries one.
C15_AtomicUnit ==
    \A c \in ToEvaluate, in \in EvalInputs(now) :
        LET d2 == evaluate_call(db, c, SCORING, in).db
        IN  /\ EvaluationUnit(c, in, d2)
            /\ EvalsOf(d2, c) # {} /\ in.llm.outcome = CALLBACK_REQUESTED
                 /\ in.llm.callback_at # NoTime =>
                  d2.cbAt[db.calls[c].app] = in.llm.callback_at

\* C16: a response that was truncated, does not parse, lacks one of outcome,
\* qualified, score, reasoning, or names an unknown outcome makes evaluate_call
\* raise with nothing written: no LLMEvaluation row, the Call still COMPLETED, the
\* application still SCORING; trigger_evaluation drops the error, so the webhook
\* goes on to answer.
C16_MalformedResponse ==
    \A c \in ToEvaluate, resp \in LLMResponses :
        LET in == [llm |-> ParseEvaluation(resp), fault |-> "none", sent |-> TRUE,
                   cvfault |-> "none"]
            r  == evaluate_call(db, c, SCORING, in)
        IN  \/ resp.stop = "max_tokens"
            \/ ~resp.json
            \/ resp.keys # {"outcome", "qualified", "score", "reasoning"}
            \/ resp.outcome \notin Outcomes
            => /\ r.raised
               /\ r.db = db
               /\ trigger_evaluation(db, c, SCORING, in) = db
               /\ EvalsOf(r.db, c) = {}
               /\ r.db.calls[c].status = COMPLETED
               /\ r.db.status[db.calls[c].app] = SCORING

\* A delivery of a finished conversation whose evaluation failed has been
\* answered: no evaluation, no transition row of the system.
C16_Witness ==
    /\ ev.op = "webhook" /\ ~ev.raised
    /\ ToEvaluate # {}
    /\ \A a \in AppIds : \A i \in DOMAIN db.audit[a] : db.audit[a][i].by = USER

\* C17: when the CV request after a qualified or not-qualified evaluation fails (a
\* Message cannot be created, or a write of set_awaiting_cv fails), evaluate_call
\* still returns normally, and the LLMEvaluation row, the qualified flag and the
\* StatusChange row into QUALIFIED / NOT_QUALIFIED stay committed.
C17_CvRequestFireAndForget ==
    \A c \in ToEvaluate, in \in EvalInputs(now) :
        /\ in.llm.outcome \in {QUALIFIED_OUTCOME, NOT_QUALIFIED_OUTCOME}
        /\ in.fault = "none"
        /\ ~in.sent \/ in.cvfault # "none"
        => LET r == evaluate_call(db, c, SCORING, in)
               a == db.calls[c].app
               n == Len(db.audit[a])
           IN  /\ ~r.raised
               /\ \E i \in EvalsOf(r.db, c) : r.db.evals[i].outcome = in.llm.outcome
               /\ r.db.qualified[a] = (in.llm.outcome = QUALIFIED_OUTCOME)
               /\ Len(r.db.audit[a]) = n + 1
               /\ r.db.audit[a][n + 1] =
                      StatusChangeRow(SCORING, OutcomeStatus(in.llm.outcome), Null)
               /\ r.db.status[a] # SCORING

\* A webhook's evaluation was committed and its CV request failed before the
\* transition to awaiting-CV: the application rests in QUALIFIED / NOT_QUALIFIED.
C17_Witness ==
    /\ ev.op = "webhook"
    /\ \E c \in CallIds :
          /\ EvalsOf(db, c) # {}
          /\ db.status[db.calls[c].app] \in {QUALIFIED, NOT_QUALIFIED}
          /\ LET rows == db.audit[db.calls[c].app]
             IN  rows # <<>> /\ rows[Len(rows)].to = db.status[db.calls[c].app]

-----------------------------------------------------------------------------
(* CV intake: process_inbound_cv over three applications of two candidates *)

MaxUnmatched == 1      \* UnmatchedInbound rows
MaxOverrides == 1      \* recruiter overrides while the intake is observed
MaxUploads == 2        \* CVUpload rows

Candidates == {1, 2}
NoApplication == 9     \* a reference number no Application row carries

\* What the matchers find in one inbound message: the candidate whose email /
\* phone equals the sender (0: none, or the matcher is not tried), the
\* application number in the subject or body (0: none), the candidate whose
\* name the sender's display name resembles (0: none or no display name), the
\* candidate the data extracted from the file points to (0: none, no text, or
\* CVExtractionError).
Messages ==
    [email : Candidates \cup {0}, phone : {0, 2}, app_id : {0, 2, NoApplication},
     sender_name : {0, 1}, extracted : {0, 2}]

\* _get_candidates_awaiting_cv
Pool(d) == {d.cand[a] : a \in AwaitingApps(d)}

\* The candidate each priority comes up with (0: none).
MatchOf(d, msg, match_method) ==
    CASE match_method = EXACT_EMAIL -> msg.email
      [] match_method = EXACT_PHONE -> msg.phone
      [] match_method = SUBJECT_ID ->
             IF msg.app_id \in DOMAIN d.status THEN d.cand[msg.app_id] ELSE 0
      [] match_method = FUZZY_NAME ->
             IF msg.sender_name \in Pool(d) THEN msg.sender_name ELSE 0
      [] match_method = CV_CONTENT ->
             IF msg.extracted \in Pool(d) THEN msg.extracted ELSE 0

\* Only the sender-name match asks for a review.
NeedsReviewFuzzyOnly(match_method) == match_method = FUZZY_NAME

\* needs_review as the blocks of priorities 4 and 5 pass it.
NeedsReview(match_method) == match_method \in {FUZZY_NAME, CV_CONTENT}

\* The phone match tried before the email match.
PhoneFirst == <<EXACT_PHONE, EXACT_EMAIL, SUBJECT_ID, FUZZY_NAME, CV_CONTENT>>

\* The order of the blocks of process_inbound_cv.
PRIORITIES == <<EXACT_EMAIL, EXACT_PHONE, SUBJECT_ID, FUZZY_NAME, CV_CONTENT>>

_save_unmatched(d) == [d EXCEPT !.unmatched = @ + 1]

\* The blocks of process_inbound_cv from the head of priorities on: a truthy
\* result returns, a falsy one goes on, an exception leaves the function.
RECURSIVE Cascade(_, _, _, _, _, _)
Cascade(d, msg, priorities, file_path, t, fault) ==
    IF priorities = <<>> THEN NoMatch(_save_unmatched(d))
    ELSE LET match_method == Head(priorities)
             candidate == MatchOf(d, msg, match_method)
             result == _process_candidate_match(d, candidate, match_method,
                                                NeedsReview(match_method), file_path, t, fault)
         IN  IF candidate # 0 /\ (result.matched \/ result.raised) THEN result
             ELSE Cascade(d, msg, Tail(priorities), file_path, t, fault)

process_inbound_cv(d, msg, file_path, t, fault) ==
    Cascade(d, msg, PRIORITIES, file_path, t, fault)

IntakeConvIds == <<"conv_1", "conv_2", "conv_3">>

\* Application a called, the conversation ended and evaluate_call run with in.
ScreenedWith(d, a, in) ==
    LET d1 == initiate_outbound_call(d, a, IntakeConvIds[a], 0)
        c == Len(d1.calls)
        d2 == elevenlabs_webhook_persist(d1, c, d1.calls[c],
                                         [status |-> "done", transcript |-> "hello"], 0)
    IN  trigger_evaluation(d2, c, SCORING, in)

\* The same with this outcome and no failure.
Screened(d, a, outcome) ==
    ScreenedWith(d, a, NoFailure(Answer(outcome, NoTime)))

\* Applications 1 and 2 are candidate 1's, application 3 is candidate 2's.
IntakeDb ==
    [status    |-> [a \in 1 .. 3 |-> PENDING_CALL],
     cbAt      |-> [a \in 1 .. 3 |-> NoTime],
     nhReason  |-> [a \in 1 .. 3 |-> Null],
     cvAt      |-> [a \in 1 .. 3 |-> NoTime],
     qualified |-> [a \in 1 .. 3 |-> FALSE],
     audit     |-> [a \in 1 .. 3 |-> <<>>],
     pos       |-> [a \in 1 .. 3 |-> Position],
     calls     |-> <<>>,
     evals     |-> <<>>,
     cand      |-> [a \in 1 .. 3 |-> IF a = 3 THEN 2 ELSE 1],
     cvs       |-> <<>>,
     unmatched |-> 0,
     cache     |-> FALSE]

\* Application 1 waits for its CV; application 2 waits on the rejected path or
\* is with a human; application 3 waits for its CV or is with a human.
InitIntake ==
    /\ \E o2 \in {NOT_QUALIFIED_OUTCOME, NEEDS_HUMAN_OUTCOME},
          o3 \in {QUALIFIED_OUTCOME, NEEDS_HUMAN_OUTCOME} :
           db = Screened(Screened(Screened(IntakeDb, 1, QUALIFIED_OUTCOME), 2, o2), 3, o3)
    /\ now = 0
    /\ ev = Job("init")
    /\ sweep = <<>>
    /\ procs = <<>>

\* No error; the audit insert of application 2 fails; the CVUpload insert of
\* application 3 fails.
NoIntakeFault == [a \in AppIds |-> "none"]
IntakeFaults ==
    {NoIntakeFault, [NoIntakeFault EXCEPT ![2] = "create"], [NoIntakeFault EXCEPT ![3] = "upload"]}

\* The inbound webhook hands one message with an attachment to process_inbound_cv.
ProcessInboundCv ==
    \E msg \in Messages, file_path \in Paths, fault \in IntakeFaults :
        LET r == process_inbound_cv(db, msg, file_path, now, fault)
        IN  /\ r.db.unmatched <= MaxUnmatched
            /\ Len(r.db.cvs) <= MaxUploads
            /\ db' = r.db
            /\ ev' = Ev("inbound_cv", 0, r.raised, r.method)
            /\ UNCHANGED <<now, sweep, procs>>

\* StatusOverrideView while CVs come in.
IntakeOverride ==
    \E a \in AppIds, new \in {CLOSED} :
        LET r == ChangeStatus(db, a, db.status[a], new, USER, "none")
        IN  /\ Cardinality({b \in AppIds : ManualRows(r.db, b) # {}}) <= MaxOverrides
            /\ db' = r.db
            /\ ev' = Ev("status_override", a, r.raised, new)
            /\ UNCHANGED <<now, sweep, procs>>

NextIntake == ProcessInboundCv \/ IntakeOverride

SpecIntake == InitIntake /\ [][NextIntake]_vars

\* C18: when the matched candidate has N >= 1 applications in awaiting-CV
\* states, one inbound CV creates exactly N CVUpload rows, one per application,
\* all with the same file_path and match method, and moves each of the N
\* applications to its CV-received state (AWAITING_CV_REJECTED to
\* CV_RECEIVED_REJECTED, any other awaiting state to CV_RECEIVED) with
\* cv_received_at set and its own StatusChange row; the unit is atomic: an
\* error in it leaves no row and no transition behind.
C18_FanOut ==
    \A msg \in Messages, file_path \in Paths, fault \in IntakeFaults :
        LET r == process_inbound_cv(db, msg, file_path, now, fault)
            apps == {a \in DOMAIN db.status :
                        db.cand[a] = r.candidate /\ db.status[a] \in AWAITING_CV_STATUSES}
            rows == SubSeq(r.db.cvs, Len(db.cvs) + 1, Len(r.db.cvs))
            received(a) == IF db.status[a] = AWAITING_CV_REJECTED
                           THEN CV_RECEIVED_REJECTED ELSE CV_RECEIVED
        IN  /\ r.raised => r.db = db
            /\ r.matched =>
                /\ apps # {}
                /\ Len(rows) = Cardinality(apps)
                /\ {rows[i].application : i \in DOMAIN rows} = apps
                /\ \A i \in DOMAIN rows :
                       rows[i].file_path = file_path /\ rows[i].match_method = r.method
                /\ \A a \in apps :
                       /\ r.db.status[a] = received(a)
                       /\ r.db.cvAt[a] = now
                       /\ r.db.audit[a] =
                              Append(db.audit[a], StatusChangeRow(db.status[a], received(a), Null))
                /\ \A a \in DOMAIN db.status \ apps :
                       /\ r.db.status[a] = db.status[a]
                       /\ r.db.audit[a] = db.audit[a]
                       /\ r.db.cvAt[a] = db.cvAt[a]

\* One message attached one file to both waiting applications of candidate 1.
C18_Witness ==
    /\ ev.op = "inbound_cv" /\ ~ev.raised
    /\ Len(db.cvs) = 2
    /\ db.cvs[1].application = 1 /\ db.cvs[2].application = 2
    /\ db.cvs[1].file_path = db.cvs[2].file_path
    /\ db.cvs[1].match_method = db.cvs[2].match_method
    /\ db.status[1] = CV_RECEIVED /\ db.status[2] = CV_RECEIVED_REJECTED
    /\ db.cvAt[1] # NoTime /\ db.cvAt[2] # NoTime

\* C19: the cascade tries exact email, exact phone, application number, fuzzy
\* sender name, CV content in that order and stops at the first one whose
\* candidate has an awaiting-CV application; a priority whose candidate has
\* none falls through; when none succeeds exactly one UnmatchedInbound row is
\* created, no CVUpload row is created and no application changes.
C19_Cascade ==
    \A msg \in Messages, file_path \in Paths :
        LET r == process_inbound_cv(db, msg, file_path, now, NoIntakeFault)
            Hit(m) == /\ MatchOf(db, msg, m) # 0
                      /\ \E a \in DOMAIN db.status :
                             /\ db.cand[a] = MatchOf(db, msg, m)
                             /\ db.status[a] \in AWAITING_CV_STATUSES
            winner == IF Hit(EXACT_EMAIL) THEN EXACT_EMAIL
                      ELSE IF Hit(EXACT_PHONE) THEN EXACT_PHONE
                      ELSE IF Hit(SUBJECT_ID) THEN SUBJECT_ID
                      ELSE IF Hit(FUZZY_NAME) THEN FUZZY_NAME
                      ELSE IF Hit(CV_CONTENT) THEN CV_CONTENT
                      ELSE Null
            rows == SubSeq(r.db.cvs, Len(db.cvs) + 1, Len(r.db.cvs))
        IN  IF winner = Null
            THEN ~r.matched /\ r.db = [db EXCEPT !.unmatched = @ + 1]
            ELSE /\ r.matched /\ r.method = winner
                 /\ r.candidate = MatchOf(db, msg, winner)
                 /\ r.db.unmatched = db.unmatched
                 /\ rows # <<>>
                 /\ \A i \in DOMAIN rows :
                        /\ rows[i].match_method = winner
                        /\ db.cand[rows[i].application] = MatchOf(db, msg, winner)

\* The content match won for one message and a later message matched nothing.
C19_Witness ==
    /\ ev.op = "inbound_cv" /\ ~ev.raised /\ ev.new = Null
    /\ db.unmatched = 1
    /\ Len(db.cvs) = 1 /\ db.cvs[1].match_method = CV_CONTENT

-----------------------------------------------------------------------------
(* check_cv_followups against the clock: Message rows and row timestamps *)

MaxFollowupTicks == 3      \* clock ticks of one follow-up interval

\* Message.MessageType and Message.Status, src/messaging/models.py
CV_REQUEST == "cv_request"
CV_REQUEST_REJECTED == "cv_request_rejected"
MSG_CV_FOLLOWUP_1 == "cv_followup_1"
MSG_CV_FOLLOWUP_2 == "cv_followup_2"
SENT == "sent"

\* The Message row written for one send: SENT with sent_at when the provider
\* accepted it, FAILED with no sent_at otherwise.
MessageRow(a, message_type, delivered, t) ==
    [application |-> a, message_type |-> message_type,
     status |-> IF delivered THEN SENT ELSE FAILED,
     sent_at |-> IF delivered THEN t ELSE NoTime]

send_followup(d, a, message_type, delivered, t) ==
    [d EXCEPT !.msgs = Append(@, MessageRow(a, message_type, delivered, t))]

\* The message type of _FOLLOWUP_TRANSITIONS (Null: None).
FollowupMessage(st) ==
    CASE st = AWAITING_CV -> MSG_CV_FOLLOWUP_1
      [] st = CV_FOLLOWUP_1 -> MSG_CV_FOLLOWUP_2
      [] st = CV_FOLLOWUP_2 -> Null

RECURSIVE MaxOf(_)
MaxOf(S) == LET x == CHOOSE y \in S : TRUE
            IN  IF S = {x} THEN x
                ELSE LET m == MaxOf(S \ {x}) IN IF x > m THEN x ELSE m

\* The annotations of the queryset and the fallbacks of the loop, in minutes.
Baseline(d, a) ==
    LET sent == {d.msgs[i].sent_at :
                    i \in {j \in DOMAIN d.msgs :
                              d.msgs[j].application = a /\ d.msgs[j].status = SENT}}
        changed == {d.auditAt[a][i] :
                       i \in {j \in DOMAIN d.audit[a] : d.audit[a][j].to \in AWAITING_CV_STATUSES}}
    IN  IF sent # {} THEN MaxOf(sent)
        ELSE IF changed # {} THEN MaxOf(changed)
        ELSE d.updatedAt[a]

DueAt(d, a) == Baseline(d, a) + d.pos[a].follow_up_interval_hours * 60

\* Due only once the interval is exceeded.
IsDueStrict(t, due_at) == t > due_at

\* if now < due_at: continue
IsDue(t, due_at) == ~(t < due_at)

\* A database error in the INSERT of the Message row, next to those of the transition.
FollowupFaults == Faults \cup {"message"}

\* The atomic block of the loop for one due row, Message row included.
FollowupDue(d, a, memStatus, delivered, t, fault) ==
    LET message_type == FollowupMessage(memStatus)
    IN  Atomic(d,
            IF message_type # Null /\ fault = "message" THEN Raise(d, memStatus)
            ELSE set_followup_status(
                     IF message_type # Null
                     THEN send_followup(d, a, message_type, delivered, t) ELSE d,
                     a, memStatus, _FOLLOWUP_TRANSITIONS(memStatus), fault))

\* The loop over the rows as the queryset returned them (d0); an error ends the job.
RECURSIVE FollowupLoop(_, _, _, _, _, _)
FollowupLoop(d, apps, d0, t, delivered, fault) ==
    IF apps = <<>> THEN Ok(d, Null)
    ELSE LET a == Head(apps)
         IN  IF ~IsDue(t, DueAt(d0, a))
             THEN FollowupLoop(d, Tail(apps), d0, t, delivered, fault)
             ELSE LET r == FollowupDue(d, a, d0.status[a], delivered[a], t, fault[a])
                  IN  IF r.raised THEN r
                      ELSE FollowupLoop(r.db, Tail(apps), d0, t, delivered, fault)

check_cv_followups(d, t, delivered, fault) ==
    FollowupLoop(d, SeqOf(PendingFollowups(d)), d, t, delivered, fault)

\* auto_now_add of StatusChange.changed_at and auto_now of Application.updated_at:
\* the rows a handler wrote at t carry t.
Stamped(d0, d1, t) ==
    [d1 EXCEPT
        !.auditAt = [a \in DOMAIN d1.audit |->
                        d0.auditAt[a] \o [i \in 1 .. (Len(d1.audit[a]) - Len(d0.auditAt[a])) |-> t]],
        !.updatedAt = [a \in DOMAIN d1.status |->
                          IF d1.status[a] # d0.status[a] \/ d1.cvAt[a] # d0.cvAt[a]
                          THEN t ELSE d0.updatedAt[a]]]

\* Two applications of two candidates; the conversation ids are theirs.
FollowupDb ==
    [status    |-> [a \in 1 .. 2 |-> PENDING_CALL],
     cbAt      |-> [a \in 1 .. 2 |-> NoTime],
     nhReason  |-> [a \in 1 .. 2 |-> Null],
     cvAt      |-> [a \in 1 .. 2 |-> NoTime],
     qualified |-> [a \in 1 .. 2 |-> FALSE],
     audit     |-> [a \in 1 .. 2 |-> <<>>],
     pos       |-> [a \in 1 .. 2 |-> Position],
     calls     |-> <<>>,
     evals     |-> <<>>,
     cand      |-> [a \in 1 .. 2 |-> a],
     cvs       |-> <<>>,
     unmatched |-> 0,
     cache     |-> FALSE,
     msgs      |-> <<>>,
     auditAt   |-> [a \in 1 .. 2 |-> <<>>],
     updatedAt |-> [a \in 1 .. 2 |-> 0]]

\* The Message rows send_cv_request wrote at minute 0 for the evaluated applications.
RECURSIVE RequestRows(_, _, _)
RequestRows(d, apps, delivered) ==
    IF apps = <<>> THEN <<>>
    ELSE LET a == Head(apps)
         IN  <<MessageRow(a, IF d.status[a] = AWAITING_CV_REJECTED
                             THEN CV_REQUEST_REJECTED ELSE CV_REQUEST,
                          delivered[a], 0)>>
             \o RequestRows(d, Tail(apps), delivered)

\* What the LLM said of application 2: not qualified, or the outcome "qualified"
\* next to "qualified": false.
UnqualifiedAnswers ==
    {Answer(NOT_QUALIFIED_OUTCOME, NoTime),
     [Answer(QUALIFIED_OUTCOME, NoTime) EXCEPT !.qualified = FALSE]}

\* Both applications screened at minute 0: application 1 qualified, application 2
\* not; the audit insert of set_awaiting_cv may have failed for application 1;
\* each CV request was delivered or not.
InitFollowup ==
    /\ \E cvfault \in {"none", "create"}, llm2 \in UnqualifiedAnswers,
          delivered \in [1 .. 2 -> BOOLEAN] :
           LET in1 == [NoFailure(Answer(QUALIFIED_OUTCOME, NoTime))
                          EXCEPT !.cvfault = cvfault]
               d == ScreenedWith(ScreenedWith(FollowupDb, 1, in1), 2, NoFailure(llm2))
           IN  db = Stamped(FollowupDb,
                            [d EXCEPT !.msgs = RequestRows(d, <<1, 2>>, delivered)], 0)
    /\ now = 0
    /\ ev = Job("init")
    /\ sweep = <<>>
    /\ procs = <<>>

\* The clock moves by one default interval, in minutes.
FollowupInterval == DEFAULT_FOLLOW_UP_INTERVAL_HOURS * 60

FollowupTick ==
    /\ now < MaxFollowupTicks * FollowupInterval
    /\ now' = now + FollowupInterval
    /\ UNCHANGED <<db, ev, sweep, procs>>

\* One run of the job, start to end.
CheckCvFollowups ==
    \E delivered \in [AppIds -> BOOLEAN], fault \in [AppIds -> FollowupFaults] :
        LET r == check_cv_followups(db, now, delivered, fault)
        IN  /\ db' = Stamped(db, r.db, now)
            /\ ev' = Ev("check_cv_followups", 0, r.raised, Null)
            /\ UNCHANGED <<now, sweep, procs>>

\* A CV arrives from the email address of one of the candidates.
FollowupInboundCv ==
    \E candidate \in Candidates :
        LET msg == [email |-> candidate, phone |-> 0, app_id |-> 0, sender_name |-> 0,
                    extracted |-> 0]
            r == process_inbound_cv(db, msg, 1, now, NoIntakeFault)
        IN  /\ r.db.unmatched <= MaxUnmatched
            /\ db' = Stamped(db, r.db, now)
            /\ ev' = Ev("inbound_cv", 0, r.raised, r.method)
            /\ UNCHANGED <<now, sweep, procs>>

NextFollowup == FollowupTick \/ CheckCvFollowups \/ FollowupInboundCv

SpecFollowup == InitFollowup /\ [][NextFollowup]_vars

\* C20: a run of the follow-up job advances a qualified application without a
\* CV only when now >= baseline + follow_up_interval_hours (baseline: the latest
\* sent_at of a SENT message of the application, else the latest transition into
\* an awaiting-CV status, else updated_at), and then by exactly one step of
\* AWAITING_CV -> CV_FOLLOWUP_1 -> CV_FOLLOWUP_2 -> CV_OVERDUE, with one
\* follow-up message on the first two steps and none on the last; an application
\* that is not due keeps its status and gets no message; without a database
\* error every due application is advanced.
C20_FollowupTiming ==
    \A delivered \in [AppIds -> BOOLEAN], fault \in [AppIds -> FollowupFaults] :
        LET r == check_cv_followups(db, now, delivered, fault)
            new == SubSeq(r.db.msgs, Len(db.msgs) + 1, Len(r.db.msgs))
            msgsOf(a) == {i \in DOMAIN new : new[i].application = a}
            latest(S) == CHOOSE x \in S : \A y \in S : y <= x
            sentAt(a) == {db.msgs[i].sent_at :
                             i \in {j \in DOMAIN db.msgs :
                                       db.msgs[j].application = a /\ db.msgs[j].status = SENT}}
            intoAwaiting(a) == {db.auditAt[a][i] :
                                   i \in {j \in DOMAIN db.audit[a] :
                                             db.audit[a][j].to \in AWAITING_CV_STATUSES}}
            baseline(a) == IF sentAt(a) # {} THEN latest(sentAt(a))
                           ELSE IF intoAwaiting(a) # {} THEN latest(intoAwaiting(a))
                           ELSE db.updatedAt[a]
            due(a) == /\ db.qualified[a] /\ db.cvAt[a] = NoTime
                      /\ db.status[a] \in {AWAITING_CV, CV_FOLLOWUP_1, CV_FOLLOWUP_2}
                      /\ now >= baseline(a) + db.pos[a].follow_up_interval_hours * 60
            step(st) == CASE st = AWAITING_CV -> CV_FOLLOWUP_1
                          [] st = CV_FOLLOWUP_1 -> CV_FOLLOWUP_2
                          [] st = CV_FOLLOWUP_2 -> CV_OVERDUE
            note(st) == IF st = AWAITING_CV THEN MSG_CV_FOLLOWUP_1 ELSE MSG_CV_FOLLOWUP_2
        IN  \A a \in AppIds :
                /\ ~due(a) => r.db.status[a] = db.status[a] /\ msgsOf(a) = {}
                /\ r.db.status[a] = db.status[a] => msgsOf(a) = {}
                /\ r.db.status[a] # db.status[a] =>
                       /\ due(a)
                       /\ r.db.status[a] = step(db.status[a])
                       /\ r.db.audit[a] =
                              Append(db.audit[a],
                                     StatusChangeRow(db.status[a], step(db.status[a]), Null))
                       /\ IF db.status[a] = CV_FOLLOWUP_2 THEN msgsOf(a) = {}
                          ELSE /\ Cardinality(msgsOf(a)) = 1
                               /\ \A i \in msgsOf(a) : new[i].message_type = note(db.status[a])
                /\ (due(a) /\ \A b \in AppIds : fault[b] = "none") =>
                       r.db.status[a] # db.status[a]

\* Application 1 went the whole way, one interval at a time: two follow-up
\* messages delivered, then overdue with no third message.
C20_Witness ==
    /\ ev.op = "check_cv_followups" /\ ~ev.raised
    /\ db.status[1] = CV_OVERDUE
    /\ now = 3 * FollowupInterval
    /\ Len(db.msgs) = 4
    /\ db.msgs[3] = MessageRow(1, MSG_CV_FOLLOWUP_1, TRUE, FollowupInterval)
    /\ db.msgs[4] = MessageRow(1, MSG_CV_FOLLOWUP_2, TRUE, 2 * FollowupInterval)

\* C21: an application whose qualified column is not True is never followed
\* up: no run of the follow-up job, whatever the clock, the deliveries and the
\* database errors, writes a Message row for it, changes its status or adds a
\* StatusChange row.
C21_UnqualifiedNeverFollowedUp ==
    \A delivered \in [AppIds -> BOOLEAN], fault \in [AppIds -> FollowupFaults] :
        LET r == check_cv_followups(db, now, delivered, fault)
        IN  \A a \in AppIds :
                ~db.qualified[a] =>
                    /\ r.db.status[a] = db.status[a]
                    /\ r.db.audit[a] = db.audit[a]
                    /\ \A i \in DOMAIN r.db.msgs :
                           i > Len(db.msgs) => r.db.msgs[i].application # a

\* Three intervals after its CV request went out, application 2 (outcome
\* qualified, qualified false) still waits and got nothing more, while the job
\* took application 1 all the way to overdue.
C21_Witness ==
    /\ ev.op = "check_cv_followups" /\ ~ev.raised
    /\ now = 3 * FollowupInterval
    /\ ~db.qualified[2] /\ db.status[2] = AWAITING_CV /\ db.cvAt[2] = NoTime
    /\ db.msgs[2] = MessageRow(2, CV_REQUEST, TRUE, 0)
    /\ \A i \in DOMAIN db.msgs : i # 2 => db.msgs[i].application = 1
    /\ db.status[1] = CV_OVERDUE

-----------------------------------------------------------------------------
(* close_stale_rejected against the clock *)

MaxCloseTicks == 3      \* clock ticks of one rejected-CV timeout

\* The latest changed_at of a StatusChange into st, updated_at when there is none.
TransitionTime(d, a, st) ==
    LET changed == {d.auditAt[a][i] : i \in {j \in DOMAIN d.audit[a] : d.audit[a][j].to = st}}
    IN  IF changed # {} THEN MaxOf(changed) ELSE d.updatedAt[a]

\* The baseline of each of the three cases, in minutes.
CloseBaseline(d, a) ==
    IF d.status[a] = CV_RECEIVED_REJECTED THEN d.cvAt[a]
    ELSE TransitionTime(d, a, d.status[a])

Deadline(d, a) == CloseBaseline(d, a) + d.pos[a].rejected_cv_timeout_days * 24 * 60

\* to_close: the rows of the three querysets whose deadline is reached.
ToClose(d, t) == {a \in StaleRejected(d) : t >= Deadline(d, a)}

\* One run of the job at t.
CloseStaleAt(d, t, fault) == close_stale_rejected(d, ToClose(d, t), fault)

\* The clock moves by one default timeout, in minutes.
CloseInterval == DEFAULT_REJECTED_CV_TIMEOUT_DAYS * 24 * 60

CloseTick ==
    /\ now < MaxCloseTicks * CloseInterval
    /\ now' = now + CloseInterval
    /\ UNCHANGED <<db, ev, sweep, procs>>

\* One run of close_stale_rejected, start to end; raised: a close failed.
CloseStaleRun ==
    \E fault \in [AppIds -> Faults] :
        /\ db' = Stamped(db, CloseStaleAt(db, now, fault), now)
        /\ ev' = Ev("close_stale_rejected", 0,
                    \E a \in ToClose(db, now) : fault[a] # "none", Null)
        /\ UNCHANGED <<now, sweep, procs>>

\* Both applications screened at minute 0 and their CV requests delivered:
\* application 1 qualified, application 2 not.
InitClose ==
    /\ LET d == Screened(Screened(FollowupDb, 1, QUALIFIED_OUTCOME), 2, NOT_QUALIFIED_OUTCOME)
       IN  db = Stamped(FollowupDb,
                        [d EXCEPT !.msgs = RequestRows(d, <<1, 2>>, [a \in 1 .. 2 |-> TRUE])], 0)
    /\ now = 0
    /\ ev = Job("init")
    /\ sweep = <<>>
    /\ procs = <<>>

\* One run of check_cv_followups without a database error; the provider takes
\* every message or none.
FollowupRun ==
    \E sent \in BOOLEAN :
        LET r == check_cv_followups(db, now, [a \in AppIds |-> sent], [a \in AppIds |-> "none"])
        IN  /\ db' = Stamped(db, r.db, now)
            /\ ev' = Ev("check_cv_followups", 0, r.raised, Null)
            /\ UNCHANGED <<now, sweep, procs>>

NextClose == CloseTick \/ FollowupRun \/ FollowupInboundCv \/ CloseStaleRun

SpecClose == InitClose /\ [][NextClose]_vars

-----------------------------------------------------------------------------
(* elevenlabs_webhook from the first line: secret, signature, body *)

_ELEVENLABS_TIMESTAMP_TOLERANCE_SECS == 300

\* now minus the t= component of the signature header, in seconds.
Ages == {0 - (_ELEVENLABS_TIMESTAMP_TOLERANCE_SECS + 1), 0 - _ELEVENLABS_TIMESTAMP_TOLERANCE_SECS, 0,
         _ELEVENLABS_TIMESTAMP_TOLERANCE_SECS, _ELEVENLABS_TIMESTAMP_TOLERANCE_SECS + 1}

\* A request and the settings it meets: secret is whether
\* ELEVENLABS_WEBHOOK_SECRET is non-empty, production whether DEBUG is off;
\* header / wellformed / age / hmac describe the ElevenLabs-Signature header;
\* json is whether the body parses; conv is the conversation id of the payload
\* (Null: none), uid the application id of its metadata (0: none).
WebhookRequests ==
    [secret : BOOLEAN, production : BOOLEAN,
     header : BOOLEAN, wellformed : BOOLEAN, age : Ages, hmac : BOOLEAN,
     json : BOOLEAN, conv : ConvIds \cup {Null}, uid : AppIds \cup {0}, data : CallData]

\* _validate_elevenlabs_signature: TRUE when it returns None.
_validate_elevenlabs_signature(req) ==
    /\ req.wellformed
    /\ ~(req.age > _ELEVENLABS_TIMESTAMP_TOLERANCE_SECS)
    /\ ~(0 - req.age > _ELEVENLABS_TIMESTAMP_TOLERANCE_SECS)
    /\ req.hmac

Response(d, http) == [db |-> d, http |-> http]

\* Steps 4 to 8 on the located or late-bound Call; the evaluation meets no failure.
WebhookProcess(d, c, req, t) ==
    LET d2 == elevenlabs_webhook_persist(d, c, d.calls[c], req.data, t)
    IN  IF d2.calls[c].status = COMPLETED
        THEN trigger_evaluation(d2, c, SCORING,
                 IF EvalsOf(d2, c) = {} THEN NoFailure(Answer(QUALIFIED_OUTCOME, NoTime))
                 ELSE NoEval)
        ELSE d2

\* The view, top to bottom.
elevenlabs_webhook(d, req, t) ==
    IF req.secret /\ ~req.header THEN Response(d, 401)
    ELSE IF req.secret /\ ~_validate_elevenlabs_signature(req) THEN Response(d, 401)
    ELSE IF ~req.json THEN Response(d, 400)
    ELSE IF req.conv = Null THEN Response(d, 200)
    ELSE IF FindByConv(d, req.conv) # {}
         THEN Response(WebhookProcess(d, CHOOSE c \in FindByConv(d, req.conv) : TRUE, req, t), 200)
    ELSE LET cands == MostRecent(d, BindCandidates(d, req.uid))
         IN  IF cands = {} THEN Response(d, 200)
             ELSE LET c == CHOOSE x \in cands : TRUE
                  IN  Response(WebhookProcess(_bind_batch_call(d, c, req.conv), c, req, t), 200)

\* C23: the webhook changes nothing and answers 401 when the signature is
\* missing, invalid or its timestamp is more than 300 s from now, 400 when the
\* body is not JSON, and 500 when no secret is configured in production; every
\* request that passes these checks is answered 200.
C23_WebhookResponses ==
    \A req \in WebhookRequests :
        LET r == elevenlabs_webhook(db, req, now)
            signed == /\ req.header /\ req.wellformed /\ req.hmac
                      /\ req.age <= _ELEVENLABS_TIMESTAMP_TOLERANCE_SECS
                      /\ 0 - req.age <= _ELEVENLABS_TIMESTAMP_TOLERANCE_SECS
        IN  IF ~req.secret /\ req.production THEN r.http = 500 /\ r.db = db
            ELSE IF req.secret /\ ~signed THEN r.http = 401 /\ r.db = db
            ELSE IF ~req.json THEN r.http = 400 /\ r.db = db
            ELSE r.http = 200

-----------------------------------------------------------------------------
(* Call.ended_at against Call.status *)

\* C24: for every Call, ended_at is non-null exactly when its status is
\* terminal (COMPLETED, FAILED, NO_ANSWER or BUSY).
C24_EndedIffTerminal ==
    \A c \in DOMAIN db.calls :
        (db.calls[c].ended_at # NoTime) <=> (db.calls[c].status \in _TERMINAL_STATUSES)

\* The direction every writer keeps: a Call in a terminal status has ended_at.
C24_TerminalHasEnded ==
    \A c \in DOMAIN db.calls :
        db.calls[c].status \in _TERMINAL_STATUSES => db.calls[c].ended_at # NoTime

-----------------------------------------------------------------------------
(* The identifiers of a Call at creation *)

\* C25: every Call is created with exactly one of conversation id and batch id:
\* never with both and never with neither.
C25_OneIdentifier ==
    [][\A c \in NewCalls :
          (db'.calls[c].conv # Null) # (db'.calls[c].batch # Null)]_vars

\* No Call is created with both identifiers.
C25_NeverBoth ==
    [][\A c \in NewCalls :
          ~(db'.calls[c].conv # Null /\ db'.calls[c].batch # Null)]_vars

-----------------------------------------------------------------------------
(* The CV inbox: cvs/views.py, applications/services.py, applications/views.py *)

MaxInboxUploads == 2
MaxInboxManual == 1

\* AssignUnmatchedView.post on an unresolved UnmatchedInbound whose file is at
\* file_path, with anchor the application the recruiter picked.
assign_unmatched(d, anchor, file_path, t) ==
    LET candidate == d.cand[anchor]
        awaiting_apps == AwaitingAppsOf(d, candidate)
        target_apps == IF awaiting_apps = {} THEN {anchor} ELSE awaiting_apps
        r == Atomic(d, AttachAll(d, SeqOf(target_apps), d,
                                 CVUploadRow(candidate, 0, file_path, MANUAL, FALSE),
                                 t, [a \in DOMAIN d.status |-> "none"]))
    IN  [r.db EXCEPT !.resolved = @ + 1]

\* ConfirmCVReviewView.post on row i, which get_object_or_404 found with needs_review.
confirm_cv_review(d, i) == [d EXCEPT !.cvs[i].needs_review = FALSE]

\* ReassignCVView.post: row i goes to application a.
reassign_cv(d, i, a, t) ==
    LET d1 == [d EXCEPT !.cvs[i].application = a,
                        !.cvs[i].match_method = MANUAL,
                        !.cvs[i].needs_review = FALSE]
    IN  Atomic(d, advance_application_status(d1, a, d.status[a], t, "none")).db

_purge_candidate_cvs(d, candidate) ==
    [d EXCEPT !.cvs = SelectSeq(@, LAMBDA row : row.candidate # candidate)]

\* The loop of handle_manual_cv_upload: needs_review takes the column default.
RECURSIVE ManualAttachAll(_, _, _, _, _, _)
ManualAttachAll(d, apps, candidate, file_path, changed_by, t) ==
    IF apps = <<>> THEN Ok(d, Null)
    ELSE LET a == Head(apps)
             d1 == [d EXCEPT !.cvs = Append(@, CVUploadRow(candidate, a, file_path, MANUAL, FALSE))]
             r == IF d1.status[a] \in AWAITING_CV_STATUSES
                  THEN set_cv_received(d1, a, d1.status[a], d1.status[a] = AWAITING_CV_REJECTED,
                                       changed_by, t, "none")
                  ELSE Ok(d1, Null)
         IN  IF r.raised THEN r
             ELSE ManualAttachAll(r.db, Tail(apps), candidate, file_path, changed_by, t)

handle_manual_cv_upload(d, application, file_path, changed_by, t) ==
    LET candidate == d.cand[application]
        d1 == _purge_candidate_cvs(d, candidate)
        awaiting_apps == AwaitingAppsOf(d1, candidate)
        target_apps == IF awaiting_apps = {} THEN {application} ELSE awaiting_apps
    IN  Atomic(d1, ManualAttachAll(d1, SeqOf(target_apps), candidate, file_path, changed_by, t)).db

\* The rows of IntakeDb and the number of UnmatchedInbound rows resolved.
InboxDb ==
    [status    |-> [a \in 1 .. 3 |-> PENDING_CALL],
     cbAt      |-> [a \in 1 .. 3 |-> NoTime],
     nhReason  |-> [a \in 1 .. 3 |-> Null],
     cvAt      |-> [a \in 1 .. 3 |-> NoTime],
     qualified |-> [a \in 1 .. 3 |-> FALSE],
     audit     |-> [a \in 1 .. 3 |-> <<>>],
     pos       |-> [a \in 1 .. 3 |-> Position],
     calls     |-> <<>>,
     evals     |-> <<>>,
     cand      |-> [a \in 1 .. 3 |-> IF a = 3 THEN 2 ELSE 1],
     cvs       |-> <<>>,
     unmatched |-> 0,
     cache     |-> FALSE,
     resolved  |-> 0]

\* Application 1 waits for its CV; application 2, of the same candidate, waits on
\* the rejected path; application 3 waits for its CV.
InitInbox ==
    /\ db = Screened(Screened(Screened(InboxDb, 1, QUALIFIED_OUTCOME), 2, NOT_QUALIFIED_OUTCOME),
                     3, QUALIFIED_OUTCOME)
    /\ now = 0
    /\ ev = Job("init")
    /\ sweep = <<>>
    /\ procs = <<>>

\* Messages without a phone number or an application number.
InboxMessages == {msg \in Messages : msg.phone = 0 /\ msg.app_id = 0}

InboxBounded(d) ==
    /\ Len(d.cvs) <= MaxInboxUploads
    /\ d.unmatched <= MaxUnmatched
    /\ \A a \in DOMAIN d.status : Cardinality(ManualRows(d, a)) <= MaxInboxManual

InboxHandler(d, e) ==
    /\ InboxBounded(d)
    /\ db' = d
    /\ ev' = e
    /\ UNCHANGED <<now, sweep, procs>>

InboxInboundCv ==
    \E msg \in InboxMessages :
        LET r == process_inbound_cv(db, msg, 1, now, [a \in AppIds |-> "none"])
        IN  /\ InboxBounded(r.db)
            /\ db' = r.db
            /\ ev' = Ev("inbound_cv", 0, r.raised, r.method)
            /\ UNCHANGED <<now, sweep, procs>>

AssignUnmatched ==
    \E anchor \in AppIds :
        /\ db.resolved < db.unmatched
        /\ InboxHandler(assign_unmatched(db, anchor, 1, now),
                        Ev("assign_unmatched", anchor, FALSE, Null))

ConfirmCVReview ==
    \E i \in DOMAIN db.cvs :
        /\ db.cvs[i].needs_review
        /\ InboxHandler(confirm_cv_review(db, i), Ev("confirm_cv_review", 0, FALSE, Null))

ReassignCV ==
    \E i \in DOMAIN db.cvs, a \in AppIds :
        InboxHandler(reassign_cv(db, i, a, now), Ev("reassign_cv", a, FALSE, Null))

ManualCvUpload ==
    \E a \in AppIds :
        InboxHandler(handle_manual_cv_upload(db, a, 2, USER, now),
                     Ev("manual_cv_upload", a, FALSE, Null))

\* StatusOverrideView.post: the form offers every status.
InboxOverride ==
    \E a \in AppIds, new \in {CV_RECEIVED, CLOSED} :
        LET r == ChangeStatus(db, a, db.status[a], new, USER, "none")
        IN  InboxHandler(r.db, Ev("status_override", a, r.raised, new))

NextInbox ==
    \/ InboxInboundCv
    \/ AssignUnmatched
    \/ ConfirmCVReview
    \/ ReassignCV
    \/ ManualCvUpload
    \/ InboxOverride

SpecInbox == InitInbox /\ [][NextInbox]_vars

CV_RECEIVED_STATUSES == {CV_RECEIVED, CV_RECEIVED_REJECTED}

\* Application a is, or its StatusChange rows show it was, in a CV-received status.
EverCvReceived(d, a) ==
    \/ d.status[a] \in CV_RECEIVED_STATUSES
    \/ \E i \in DOMAIN d.audit[a] :
           d.audit[a][i].to \in CV_RECEIVED_STATUSES \/ d.audit[a][i].from \in CV_RECEIVED_STATUSES

\* C26: in every reachable state, an application's cv_received_at is non-null
\* if and only if the application has at some point been in CV_RECEIVED or
\* CV_RECEIVED_REJECTED, whichever operation moved it there.
C26_CvReceivedAt ==
    \A a \in AppIds : (db.cvAt[a] # NoTime) <=> EverCvReceived(db, a)

\* The direction every writer keeps: cv_received_at is set only on an
\* application that entered a CV-received status.
C26_StampedOnlyOnReceipt ==
    \A a \in AppIds : db.cvAt[a] # NoTime => EverCvReceived(db, a)

\* The rows a step added at the end of the table.
NewUploads == (Len(db.cvs) + 1) .. Len(db'.cvs)

\* C27: needs_review is true only on a row whose match_method is fuzzy-name or
\* LLM-content; a row the cascade creates has it true exactly for these two
\* methods; confirming a review clears the flag and leaves match_method as it
\* was; a reassigned or manually assigned row is manual and not under review.
C27_ReviewFlag ==
    [][/\ \A i \in DOMAIN db'.cvs :
              db'.cvs[i].needs_review => db'.cvs[i].match_method \in {FUZZY_NAME, CV_CONTENT}
       /\ ev'.op = "inbound_cv" =>
              \A i \in NewUploads :
                  db'.cvs[i].needs_review <=> db'.cvs[i].match_method \in {FUZZY_NAME, CV_CONTENT}
       /\ ev'.op = "confirm_cv_review" =>
              \E i \in DOMAIN db.cvs :
                  /\ db.cvs[i].needs_review
                  /\ db'.cvs = [db.cvs EXCEPT ![i].needs_review = FALSE]
       /\ ev'.op = "assign_unmatched" =>
              \A i \in NewUploads :
                  db'.cvs[i].match_method = MANUAL /\ ~db'.cvs[i].needs_review
       /\ ev'.op = "reassign_cv" =>
              \E i \in DOMAIN db.cvs :
                  /\ db'.cvs[i].application = ev'.app
                  /\ db'.cvs[i].match_method = MANUAL /\ ~db'.cvs[i].needs_review
                  /\ \A j \in DOMAIN db.cvs \ {i} : db'.cvs[j] = db.cvs[j]]_vars

\* A recruiter confirmed an LLM-content match: the row keeps its method and is
\* no longer under review.
C27_Witness ==
    /\ ev.op = "confirm_cv_review"
    /\ \E i \in DOMAIN db.cvs :
           db.cvs[i].match_method = CV_CONTENT /\ ~db.cvs[i].needs_review

\* C27 as stated: for every CVUpload row, needs_review is true if and only if
\* its match_method is fuzzy-name or LLM-content.
C27_ReviewIffMedium ==
    \A i \in DOMAIN db.cvs :
        db.cvs[i].needs_review <=> db.cvs[i].match_method \in {FUZZY_NAME, CV_CONTENT}

-----------------------------------------------------------------------------
(* The sidebar-counts cache: recruitflow/context_processors.py *)

\* sidebar_counts for a logged-in user: a hit returns the entry, a miss computes
\* the counts and stores them.
sidebar_counts(d) == IF d.cache THEN d ELSE [d EXCEPT !.cache = TRUE]

SidebarCounts ==
    /\ db' = sidebar_counts(db)
    /\ ev' = Ev("sidebar_counts", 0, FALSE, Null)
    /\ UNCHANGED <<now, sweep, procs>>

NextCache ==
    \/ SidebarCounts
    \/ QueueForCalling
    \/ StatusOverride
    \/ CallNow
    \/ ElevenLabsWebhook

SpecCache == Init /\ [][NextCache]_vars

\* C28: after any operation that changes a persisted status, no cache entry
\* computed before that change is still present.
C28_CacheInvalidated ==
    [][(\E a \in AppIds : db'.status[a] # db.status[a]) => ~db'.cache]_vars

\* A change of status that went through change_status to its last line (its
\* StatusChange row is there) has deleted the entry.
C28_AuditedChangeInvalidates ==
    [][(\E a \in AppIds : Len(db'.audit[a]) > Len(db.audit[a])) => ~db'.cache]_vars

-----------------------------------------------------------------------------
(* run_scheduler: the job store and the instances of each job *)

MaxMissed == 2

\* The five periodic jobs of scheduler/jobs.py.
PERIODIC_JOBS ==
    {"process_call_queue", "sync_stuck_calls", "check_cv_followups",
     "close_stale_rejected", "poll_cv_inbox"}

\* scheduler.add_job(func, IntervalTrigger(minutes=...), id=..., max_instances=1,
\* coalesce=True): the arguments every registration of Command.handle passes.
add_job(id, minutes) ==
    [id |-> id, minutes |-> minutes, max_instances |-> 1, coalesce |-> TRUE]

\* The registrations of Command.handle, in order.
JobStore ==
    {add_job("process_call_queue", 5), add_job("sync_stuck_calls", 10),
     add_job("check_cv_followups", 60), add_job("close_stale_rejected", 24 * 60)}

JobIds == {j.id : j \in JobStore}
JobOf(id) == CHOOSE j \in JobStore : j.id = id

\* scheduler.start(): per job, the instances in flight, the run times that came
\* due since the scheduler last looked, and the calls of the job function the
\* running instance still has to make.
InitScheduler ==
    /\ db = EmptyDb
    /\ now = 0
    /\ ev = Job("init")
    /\ sweep = <<>>
    /\ procs = [id \in JobIds |-> [running |-> 0, missed |-> 0, runs |-> 0]]

\* A run time of the interval trigger passes before the scheduler wakes.
RunTimeDue ==
    \E id \in JobIds :
        /\ procs[id].missed < MaxMissed
        /\ procs' = [procs EXCEPT ![id].missed = @ + 1]
        /\ UNCHANGED <<db, now, ev, sweep>>

\* The scheduler wakes and submits the due run times of a job: with coalesce one
\* run stands for all of them; with max_instances reached the submission is skipped.
ProcessDueJobs ==
    \E id \in JobIds :
        /\ procs[id].missed > 0
        /\ procs' = [procs EXCEPT ![id] =
                        IF procs[id].running >= JobOf(id).max_instances
                        THEN [@ EXCEPT !.missed = 0]
                        ELSE [running |-> @.running + 1, missed |-> 0,
                              runs |-> IF JobOf(id).coalesce THEN 1 ELSE @.missed]]
        /\ ev' = Job("submit_" \o id)
        /\ UNCHANGED <<db, now, sweep>>

\* The running instance calls the job function (what the job does to the rows
\* is the job's action in the specifications above).
JobRuns ==
    \E id \in JobIds :
        /\ procs[id].running > 0 /\ procs[id].runs > 0
        /\ procs' = [procs EXCEPT ![id].runs = @ - 1]
        /\ ev' = Job(id)
        /\ UNCHANGED <<db, now, sweep>>

InstanceEnds ==
    \E id \in JobIds :
        /\ procs[id].running > 0 /\ procs[id].runs = 0
        /\ procs' = [procs EXCEPT ![id].running = @ - 1]
        /\ UNCHANGED <<db, now, ev, sweep>>

NextScheduler == RunTimeDue \/ ProcessDueJobs \/ JobRuns \/ InstanceEnds

SpecScheduler == InitScheduler /\ [][NextScheduler]_vars

\* C29: the scheduler runs all five periodic jobs; for each job at most one
\* instance runs at any time, and several missed runs of a job are collapsed
\* into a single execution.
C29_FiveJobsSingleCoalesced ==
    /\ \A id \in PERIODIC_JOBS : id \in DOMAIN procs
    /\ \A id \in DOMAIN procs : procs[id].running <= 1 /\ procs[id].runs <= 1

\* The jobs that are registered never overlap themselves and run once for any
\* number of missed run times.
C29_RegisteredSingleCoalesced ==
    \A id \in DOMAIN procs : procs[id].running <= 1 /\ procs[id].runs <= 1

-----------------------------------------------------------------------------
(* Phone matching: _digits_only and _phones_match, cvs/services.py and        *)
(* candidates/services.py. A phone is the sequence of its characters.         *)

MinDigits == 7

DigitChars == {"0", "1", "2", "3", "4", "5", "6", "7", "8", "9"}

\* re.sub(r"\D", "", phone or "")
_digits_only(phone) == SelectSeq(phone, LAMBDA ch : ch \in DigitChars)

\* long_.endswith(short)
EndsWith(long_, short) ==
    /\ Len(short) <= Len(long_)
    /\ SubSeq(long_, Len(long_) - Len(short) + 1, Len(long_)) = short

_phones_match(query_digits, stored_phone) ==
    LET stored_digits == _digits_only(stored_phone)
    IN  IF stored_digits = <<>> \/ Len(query_digits) < MinDigits THEN FALSE
        ELSE IF query_digits = stored_digits THEN TRUE
        ELSE LET short == IF Len(query_digits) <= Len(stored_digits)
                          THEN query_digits ELSE stored_digits
                 long_ == IF Len(query_digits) <= Len(stored_digits)
                          THEN stored_digits ELSE query_digits
             IN  EndsWith(long_, short) /\ Len(short) >= MinDigits

\* "+44 7700 900123" and "07700900123"
International == <<"+", "4", "4", " ", "7", "7", "0", "0", " ", "9", "0", "0", "1", "2", "3">>
National == <<"0", "7", "7", "0", "0", "9", "0", "0", "1", "2", "3">>

\* The subscriber number, its tails of 5 to 10 digits, and what is written in
\* front of them.
Subscriber == <<"7", "7", "0", "0", "9", "0", "0", "1", "2", "3">>
Tails == {SubSeq(Subscriber, k, Len(Subscriber)) : k \in 1 .. 6}
Prefixes == {<<>>, <<"0">>, <<"4", "4">>, <<"+", "4", "4", " ">>}
Phones == {International, National} \cup {pre \o tail : pre \in Prefixes, tail \in Tails}

\* A lookup about to compare the phone of an inbound message with a stored one.
InitPhone ==
    /\ db = EmptyDb
    /\ now = 0
    /\ ev = Job("init")
    /\ sweep = <<>>
    /\ \E query \in Phones, stored \in Phones :
           procs = <<[query |-> query, stored |-> stored, done |-> FALSE, result |-> FALSE]>>

\* lookup_candidate_by_phone on one candidate: digits of the query, then _phones_match.
PhonesMatch ==
    /\ ~procs[1].done
    /\ procs' = <<[procs[1] EXCEPT !.done = TRUE,
                                   !.result = _phones_match(_digits_only(procs[1].query),
                                                            procs[1].stored)]>>
    /\ ev' = Job("lookup_candidate_by_phone")
    /\ UNCHANGED <<db, now, sweep>>

NextPhone == PhonesMatch

SpecPhone == InitPhone /\ [][NextPhone]_vars

\* The number of digits two digit strings share at their end.
RECURSIVE CommonSuffix(_, _)
CommonSuffix(x, y) ==
    IF x = <<>> \/ y = <<>> \/ x[Len(x)] # y[Len(y)] THEN 0
    ELSE 1 + CommonSuffix(SubSeq(x, 1, Len(x) - 1), SubSeq(y, 1, Len(y) - 1))

\* C30: the phone matcher returns true for the pair "+44 7700 900123" and
\* "07700900123", and false for every pair in which fewer than 7 significant
\* digits match, whichever of the two numbers is the query.
C30_PhoneMatcher ==
    \A i \in DOMAIN procs :
        procs[i].done =>
            /\ procs[i].query = International /\ procs[i].stored = National => procs[i].result
            /\ CommonSuffix(_digits_only(procs[i].query), _digits_only(procs[i].stored)) < MinDigits
                   => ~procs[i].result

\* Fewer than 7 digits in common at the end: no match, in either direction.
C30_ShortNeverMatches ==
    \A i \in DOMAIN procs :
        procs[i].done /\ CommonSuffix(_digits_only(procs[i].query),
                                      _digits_only(procs[i].stored)) < MinDigits
            => ~procs[i].result

-----------------------------------------------------------------------------
(* whapi_webhook and the CandidateReply rows: webhooks/views.py,              *)
(* messaging/services.py, candidates/services.py                              *)

MaxReplies == 2

_WHAPI_MEDIA_TYPES == {"image", "document", "audio", "video", "sticker", "file"}

\* Candidate.phone of the two candidates: "07700900123" and "+40 700 000 001".
PhoneOf(candidate) ==
    IF candidate = 1 THEN National
    ELSE <<"+", "4", "0", " ", "7", "0", "0", " ", "0", "0", "0", " ", "0", "0", "1">>

\* What a message carries as "from" (before "@"): the number of candidate 1,
\* the number of candidate 2 without its formatting, a number nobody has.
Senders ==
    {National,
     <<"4", "0", "7", "0", "0", "0", "0", "0", "0", "0", "1">>,
     <<"4", "9", "1", "5", "1", "2", "3", "4", "5", "6", "7">>}

\* The candidate whose stored phone is the sender's number (0: nobody).
OwnerOf(sender) ==
    IF sender = National THEN 1
    ELSE IF sender[2] = "0" THEN 2 ELSE 0

\* lookup_candidate_by_phone: the first candidate whose phone matches (0: None).
lookup_candidate_by_phone(phone) ==
    LET digits == _digits_only(phone)
        found == {c \in Candidates : _phones_match(digits, PhoneOf(c))}
    IN  IF digits = <<>> \/ found = {} THEN 0
        ELSE CHOOSE c \in found : \A x \in found : c <= x

\* save_candidate_reply for a phone sender: the row is created whether or not
\* the sender resolves to a candidate.
save_candidate_reply(d, sender, channel) ==
    [d EXCEPT !.replies = Append(@, [candidate |-> lookup_candidate_by_phone(sender),
                                     channel |-> channel, sender |-> sender])]

\* A message of the payload: its type, the from_me mark, the sender and what
\* its media holds (no URL, a URL whose download fails, a downloaded file whose
\* text names candidate `extracted` or nobody).
WhapiMessages ==
    [type : {"text", "document"}, from_me : BOOLEAN, from : Senders,
     media : {"none", "failed", "ok"}, extracted : {0, 2}]

\* _handle_whapi_message; an exception of the CV pipeline is logged.
_handle_whapi_message(d, msg, t) ==
    IF msg.type \in _WHAPI_MEDIA_TYPES
    THEN IF msg.media # "ok" THEN d
         ELSE process_inbound_cv(d, [email |-> 0, phone |-> lookup_candidate_by_phone(msg.from),
                                     app_id |-> 0, sender_name |-> 0,
                                     extracted |-> msg.extracted],
                                 1, t, [a \in DOMAIN d.status |-> "none"]).db
    ELSE d

\* The loop of whapi_webhook over payload["messages"].
RECURSIVE HandleAll(_, _, _)
HandleAll(d, messages, t) ==
    IF messages = <<>> THEN d
    ELSE HandleAll(_handle_whapi_message(d, Head(messages), t), Tail(messages), t)

whapi_webhook(d, messages, t) == HandleAll(d, messages, t)

\* The rows of IntakeDb and the CandidateReply table.
WhapiDb ==
    [status    |-> [a \in 1 .. 3 |-> PENDING_CALL],
     cbAt      |-> [a \in 1 .. 3 |-> NoTime],
     nhReason  |-> [a \in 1 .. 3 |-> Null],
     cvAt      |-> [a \in 1 .. 3 |-> NoTime],
     qualified |-> [a \in 1 .. 3 |-> FALSE],
     audit     |-> [a \in 1 .. 3 |-> <<>>],
     pos       |-> [a \in 1 .. 3 |-> Position],
     calls     |-> <<>>,
     evals     |-> <<>>,
     cand      |-> [a \in 1 .. 3 |-> IF a = 3 THEN 2 ELSE 1],
     cvs       |-> <<>>,
     unmatched |-> 0,
     cache     |-> FALSE,
     replies   |-> <<>>]

InitWhapi ==
    /\ db = Screened(Screened(Screened(WhapiDb, 1, QUALIFIED_OUTCOME), 2, NOT_QUALIFIED_OUTCOME),
                     3, QUALIFIED_OUTCOME)
    /\ now = 0
    /\ ev = Job("init")
    /\ sweep = <<>>
    /\ procs = <<>>

WhapiBounded(d) ==
    /\ Len(d.cvs) <= MaxUploads
    /\ d.unmatched <= MaxUnmatched
    /\ Len(d.replies) <= MaxReplies

\* A payload of one or two messages that passed the token check.
WhapiWebhook ==
    \E m1 \in WhapiMessages, m2 \in WhapiMessages, n \in 1 .. 2 :
        LET d == whapi_webhook(db, SubSeq(<<m1, m2>>, 1, n), now)
        IN  /\ WhapiBounded(d)
            /\ db' = d
            /\ ev' = Ev("whapi_webhook", 0, FALSE, Null)
            /\ UNCHANGED <<now, sweep, procs>>

\* poll_cv_inbox meets an unread message with a text body and no attachment,
\* here from a sender identified by a phone number.
PollTextOnly ==
    \E sender \in Senders :
        LET d == save_candidate_reply(db, sender, "email")
        IN  /\ WhapiBounded(d)
            /\ db' = d
            /\ ev' = Ev("poll_cv_inbox", 0, FALSE, Null)
            /\ UNCHANGED <<now, sweep, procs>>

NextWhapi == WhapiWebhook \/ PollTextOnly

SpecWhapi == InitWhapi /\ [][NextWhapi]_vars

\* C31: for every message of an inbound WhatsApp webhook, a text message not
\* sent by us creates exactly one CandidateReply whose candidate is the one the
\* sender's phone digits resolve to, and a message marked as sent by us creates
\* no CandidateReply and starts no CV processing.
C31_WhapiMessages ==
    \A msg \in WhapiMessages :
        LET d == _handle_whapi_message(db, msg, now)
        IN  /\ msg.type = "text" /\ ~msg.from_me =>
                  /\ Len(d.replies) = Len(db.replies) + 1
                  /\ d.replies[Len(d.replies)].candidate = OwnerOf(msg.from)
            /\ msg.from_me =>
                  /\ d.replies = db.replies
                  /\ d.cvs = db.cvs /\ d.unmatched = db.unmatched /\ d.status = db.status

\* A message the webhook handles never adds a CandidateReply.
C31_NoReplyFromWebhook ==
    \A msg \in WhapiMessages : _handle_whapi_message(db, msg, now).replies = db.replies

-----------------------------------------------------------------------------
(* The batch dispatch that succeeds *)

\* C32: when the dispatcher runs at an hour inside the position's calling window
\* and the batch submission succeeds, every submitted application ends in
\* CALL_IN_PROGRESS and has exactly one new Call, in INITIATED, with the batch id
\* set and the conversation id null.
C32_BatchSuccess ==
    [][ev'.op = "batch_submitted" =>
          \A i \in DOMAIN sweep :
              LET a == sweep[i].app
                  mine == {c \in NewCalls : db'.calls[c].app = a}
              IN  /\ db.pos[a].start <= ev'.hour /\ ev'.hour < db.pos[a].end
                  /\ db'.status[a] = CALL_IN_PROGRESS
                  /\ Cardinality(mine) = 1
                  /\ \A c \in mine :
                         /\ db'.calls[c].status = INITIATED
                         /\ db'.calls[c].batch # Null
                         /\ db'.calls[c].conv = Null]_vars

\* Both applications went out in one batch: two Call rows of the batch, no
\* conversation id yet.
C32_Witness ==
    /\ ev.op = "batch_submitted"
    /\ Len(db.calls) = 2
    /\ db.calls[1].app # db.calls[2].app
    /\ \A c \in DOMAIN db.calls :
           db.calls[c].batch = BatchId /\ db.calls[c].conv = Null /\ db.calls[c].status = INITIATED
    /\ \A a \in AppIds : db.status[a] = CALL_IN_PROGRESS

-----------------------------------------------------------------------------
(* The callback queue of process_call_queue under recruiter-chosen callback
   times and position statuses *)

MaxCallbackCalls == 2     \* Call rows while the callback queue is observed

PAUSED == "paused"

InitCallback ==
    /\ db = BatchDb
    /\ now = 0
    /\ ev = Job("init")
    /\ sweep = <<>>
    /\ procs = <<>>

\* ScheduleCallbackView.post: the form's datetime is the present or a later time.
ScheduleCallbackAt ==
    \E a \in AppIds, callback_at \in {now, now + TickMinutes} :
        LET r == set_callback_scheduled(db, a, db.status[a], callback_at, USER, "none")
        IN  /\ db.status[a] \in {PENDING_CALL, CALLBACK_SCHEDULED}
            /\ Len(r.db.audit[a]) <= MaxAudit
            /\ db' = r.db
            /\ ev' = Ev("schedule_callback", a, r.raised, CALLBACK_SCHEDULED)
            /\ UNCHANGED <<now, sweep, procs>>

\* PositionUpdateView: the recruiter pauses or re-opens the position.
PositionUpdate ==
    \E a \in AppIds, status \in {OPEN, PAUSED} :
        /\ db.pos[a].status # status
        /\ db' = [db EXCEPT !.pos[a].status = status]
        /\ ev' = Ev("position_update", a, FALSE, Null)
        /\ UNCHANGED <<now, sweep, procs>>

\* One run of process_call_queue at wall-clock hour h.
DispatchCalls ==
    \E h \in Hours :
        LET el  == Eligible(db, h)
            due == DueCallbacks([db EXCEPT !.status =
                                    [a \in AppIds |-> IF a \in el THEN CALL_IN_PROGRESS
                                                      ELSE db.status[a]]], h, now)
        IN  \E answer \in [AppIds -> ApiAnswers(db)] :
                LET d == process_call_queue(db, h, now, TRUE, answer,
                                            [a \in AppIds |-> "none"])
                IN  /\ \A a, b \in AppIds :
                           a # b /\ answer[a] = answer[b] => answer[a] \in {"error", Null}
                    /\ \A a \in AppIds \ due : answer[a] = Null
                    /\ Len(d.calls) <= MaxCallbackCalls
                    /\ db' = d
                    /\ ev' = At(Job("process_call_queue"), h)
                    /\ UNCHANGED <<now, sweep, procs>>

NextCallback ==
    \/ ScheduleCallbackAt
    \/ PositionUpdate
    \/ QueueForCalling
    \/ DispatchCalls
    \/ Tick

SpecCallback == InitCallback /\ [][NextCallback]_vars

\* C33: a run of process_call_queue creates a Call for an application that was
\* CALLBACK_SCHEDULED only when its callback_scheduled_at is set and not after the
\* present, its position is OPEN and the hour is inside the calling window; that
\* application gets exactly one Call, submitted on its own (no batch id); and an
\* application whose callback time is still in the future gets no Call and keeps
\* its status.
C33_CallbackDispatch ==
    [][ev'.op = "process_call_queue" =>
          \A a \in AppIds :
              LET mine == {c \in NewCalls : db'.calls[c].app = a}
              IN  db.status[a] = CALLBACK_SCHEDULED =>
                      /\ mine # {} =>
                             /\ db.cbAt[a] # NoTime /\ db.cbAt[a] <= now
                             /\ db.pos[a].status = OPEN
                             /\ db.pos[a].start <= ev'.hour /\ ev'.hour < db.pos[a].end
                             /\ Cardinality(mine) = 1
                             /\ \A c \in mine : /\ db'.calls[c].batch = Null
                                                /\ db'.calls[c].status = INITIATED
                                                /\ db'.calls[c].attempt
                                                       = Cardinality(CallsOf(db, a)) + 1
                             /\ db'.status[a] = CALL_IN_PROGRESS
                      /\ db.cbAt[a] > now =>
                             /\ mine = {}
                             /\ db'.status[a] = CALLBACK_SCHEDULED]_vars

\* A run dialled the due callback of application 1 and, in the same run, left
\* application 2, whose callback is still ahead and whose hour is inside its
\* window, alone.
C33_Witness ==
    /\ ev.op = "process_call_queue"
    /\ ev.hour = DEFAULT_CALLING_HOUR_END - 1
    /\ db.status[1] = CALL_IN_PROGRESS
    /\ \E c \in DOMAIN db.calls :
           /\ db.calls[c].app = 1 /\ db.calls[c].batch = Null
           /\ db.calls[c].initiated_at = now
           /\ db.cbAt[1] # NoTime /\ db.cbAt[1] <= now
    /\ db.status[2] = CALLBACK_SCHEDULED
    /\ db.cbAt[2] > now
    /\ db.pos[2].status = OPEN
-----------------------------------------------------------------------------
(* initiate_outbound_call step by step: the count of the application's calls is
   read before the POST, the Call row is created after it *)

MaxDialers == 2          \* calls of initiate_outbound_call that were started
MaxAttemptCalls == 3     \* Call rows while the attempt numbers are observed

\* Call.objects.create: the Call table has one unique index, on the conversation
\* id when present; the row is accepted whatever its attempt_number.
CallInsert(d, call) == [d EXCEPT !.calls = Append(@, call)]

\* The first lines of initiate_outbound_call: attempt_number from the count.
Dialer(op, a) ==
    [op |-> op, app |-> a, attempt |-> Cardinality(CallsOf(db, a)) + 1, pc |-> "post"]

Pending(op) == {p \in DOMAIN procs : procs[p].op = op /\ procs[p].pc = "post"}

\* CallNowView.post up to the POST of initiate_outbound_call.
CallNowRead ==
    \E a \in AppIds :
        /\ db.status[a] \in CALLABLE_STATUSES
        /\ Len(procs) < MaxDialers
        /\ procs' = Append(procs, Dialer("call_now", a))
        /\ ev' = Ev("call_now_read", a, FALSE, Null)
        /\ UNCHANGED <<db, now, sweep>>

\* The callback queue of process_call_queue up to the POST of one _attempt_call;
\* the job has one instance, so one such call is in flight at a time.
CallbackRead ==
    \E h \in Hours :
        \E a \in DueCallbacks(db, h, now) :
            /\ Pending("callback") = {}
            /\ Len(procs) < MaxDialers
            /\ procs' = Append(procs, Dialer("callback", a))
            /\ ev' = At(Ev("callback_read", a, FALSE, Null), h)
            /\ UNCHANGED <<db, now, sweep>>

\* The POST returns: the atomic block of initiate_outbound_call, or the except
\* branch of its caller.
DialCreate ==
    \E p \in DOMAIN procs, answer \in ApiAnswers(db) :
        LET a    == procs[p].app
            call == [NewCall(db, a, answer, Null, now) EXCEPT !.attempt = procs[p].attempt]
        IN  /\ procs[p].pc = "post"
            /\ db' = IF answer # "error"
                     THEN [CallInsert(db, call) EXCEPT !.status[a] = CALL_IN_PROGRESS]
                     ELSE IF procs[p].op = "callback"
                     THEN Atomic(db, set_call_failed(db, a, CALLBACK_SCHEDULED, "none")).db
                     ELSE db
            /\ Len(db'.calls) <= MaxAttemptCalls
            /\ procs' = [procs EXCEPT ![p].pc = "done"]
            /\ ev' = Ev(procs[p].op, a, answer = "error", Null)
            /\ UNCHANGED <<now, sweep>>

\* The batch part of process_call_queue with a successful submission.
DispatchBatch ==
    \E h \in Hours :
        LET el == Eligible(db, h)
            d  == _submit_batch_chunk(db, SeqOf(el), now)
        IN  /\ el # {}
            /\ Pending("callback") = {}
            /\ Len(d.calls) <= MaxAttemptCalls
            /\ db' = d
            /\ ev' = At(Job("batch_submitted"), h)
            /\ UNCHANGED <<now, sweep, procs>>

NextAttempts ==
    \/ QueueForCalling
    \/ ScheduleCallbackAt
    \/ CallNowRead
    \/ CallbackRead
    \/ DialCreate
    \/ DispatchBatch

SpecAttempts == InitCallback /\ [][NextAttempts]_vars

\* C34: for every application the attempt numbers of its Calls are exactly
\* 1, 2, ..., n, each once, whatever the interleaving of the batch dispatch, the
\* callback dispatch and manual call-now requests.
C34_AttemptNumbers ==
    \A a \in AppIds :
        /\ {db.calls[c].attempt : c \in CallsOf(db, a)} = 1 .. Cardinality(CallsOf(db, a))
        /\ \A c1, c2 \in CallsOf(db, a) :
               db.calls[c1].attempt = db.calls[c2].attempt => c1 = c2

\* What the count gives under every interleaving: an attempt number is at least 1
\* and at most the number of the application's Calls.
C34_AttemptWithinCount ==
    \A a \in AppIds : \A c \in CallsOf(db, a) :
        db.calls[c].attempt \in 1 .. Cardinality(CallsOf(db, a))
-----------------------------------------------------------------------------
(* Deliveries for a Call that already has its Evaluation *)

Evaluated(d, a) ==
    /\ CallsOf(d, a) # {}
    /\ \A c \in CallsOf(d, a) : EvalsOf(d, c) # {}

\* C35: a delivery of a call result (by the webhook or by the poll of
\* sync_stuck_calls) for a Call that already has an Evaluation leaves the
\* status of its application as it was.
C35_LateDeliveryKeepsStatus ==
    [][\A a \in AppIds :
          ev'.op \in {"webhook", "sync_stuck_calls"} /\ Evaluated(db, a)
              => db'.status[a] = db.status[a]]_vars

\* Such a delivery never adds a second Evaluation.
C35_LateDeliveryAddsNoEvaluation ==
    [][\A a \in AppIds :
          ev'.op \in {"webhook", "sync_stuck_calls"} /\ Evaluated(db, a)
              => db'.evals = db.evals]_vars
-----------------------------------------------------------------------------
(* The CV cascade while a sweep is running *)

\* C36: when the CV cascade has moved an application to CV_RECEIVED or
\* CV_RECEIVED_REJECTED after a follow-up sweep read it, the sweep's step for that
\* application leaves the status the cascade wrote.
C36_SweepKeepsCvReceived ==
    [][ev'.op = "followup" /\ db.status[ev'.app] \in {CV_RECEIVED, CV_RECEIVED_REJECTED}
           => db'.status[ev'.app] = db.status[ev'.app]]_vars

\* On a row that is still as the sweep read it, a step that reports no error
\* makes the transition of the follow-up table.
C36_FreshRowAdvances ==
    [][ev'.op = "followup" /\ ~ev'.raised /\ db.status[ev'.app] = Head(sweep).status
           => db'.status[ev'.app] = _FOLLOWUP_TRANSITIONS(db.status[ev'.app])]_vars
-----------------------------------------------------------------------------
(* Progress of calls: the scheduler keeps running its jobs and the voice API
   answers the poll with a final state *)

\* Calls are placed while the clock of the model can still pass the thresholds.
ClockRuns == now < MaxTicks * TickMinutes

LiveCallNow == ClockRuns /\ CallNow

LiveProcessCallQueue == ClockRuns /\ ProcessCallQueue

\* A run of sync_stuck_calls that finds stuck calls, in which every poll returns a
\* finished conversation, the LLM returns a valid response and no database error
\* occurs.
SyncAnswered ==
    /\ ev' = Job("sync_stuck_calls")
    /\ UNCHANGED <<now, sweep, procs>>
    /\ StuckCalls(db, now) # {}
    /\ \E poll \in [StuckCalls(db, now) -> {data \in CallData : data.status # "processing"}],
          llm \in {x \in LLMAnswers(now) : x.outcome # "error"} :
             \E d \in {sync_stuck_calls(db, now, poll, NoFailure(llm), "none")} :
                 Bounded(d) /\ db' = d

NextLive ==
    \/ QueueForCalling
    \/ LiveCallNow
    \/ LiveProcessCallQueue
    \/ ElevenLabsWebhook
    \/ SyncStuckCalls
    \/ Tick

SpecLive ==
    /\ Init
    /\ [][NextLive]_vars
    /\ WF_vars(Tick)
    /\ SF_vars(SyncAnswered)

\* C37: every application that enters CALL_IN_PROGRESS eventually leaves it, and
\* every created Call eventually reaches a terminal status, with or without a
\* conversation id, a batch id or a webhook.
C37_CallsTerminate ==
    /\ \A a \in Apps : (db.status[a] = CALL_IN_PROGRESS) ~> (db.status[a] # CALL_IN_PROGRESS)
    /\ \A c \in 1 .. MaxCalls :
           (c \in DOMAIN db.calls)
               ~> (c \in DOMAIN db.calls /\ db.calls[c].status \in _TERMINAL_STATUSES)

\* C38: every application that enters SCORING eventually leaves it, also when
\* the first evaluation attempt failed.
C38_ScoringEnds ==
    \A a \in Apps : (db.status[a] = SCORING) ~> (db.status[a] # SCORING)

\* A step that records an Evaluation takes the application out of SCORING.
C38_EvaluationLeavesScoring ==
    [][\A e \in DOMAIN db'.evals \ DOMAIN db.evals :
           db'.status[db'.calls[db'.evals[e].call].app] # SCORING]_vars

-----------------------------------------------------------------------------
(* callback_scheduled_at of an application in CALLBACK_SCHEDULED *)

\* C39: in every reachable state an application in CALLBACK_SCHEDULED has a
\* non-null callback_scheduled_at.
C39_CallbackHasTime ==
    \A a \in AppIds : db.status[a] = CALLBACK_SCHEDULED => db.cbAt[a] # NoTime

\* What does hold: a step that puts an application into CALLBACK_SCHEDULED leaves
\* its callback_scheduled_at at the time the transition carried (the present, in every
\* request of the model) or, when it carried none, at the value the field had
\* before; and the field changes only in a step that leaves the application in
\* CALLBACK_SCHEDULED with the carried time.
C39_CallbackTimeCarriedOrKept ==
    [][\A a \in AppIds :
          /\ db.status[a] # CALLBACK_SCHEDULED /\ db'.status[a] = CALLBACK_SCHEDULED
                 => db'.cbAt[a] \in {db.cbAt[a], now}
          /\ db'.cbAt[a] # db.cbAt[a]
                 => db'.status[a] = CALLBACK_SCHEDULED /\ db'.cbAt[a] = now]_vars

-----------------------------------------------------------------------------
(* CLOSED applications and the automated handlers *)

\* The handlers that run without a recruiter: the scheduler's jobs, the webhook
\* and the CV intake.
AutomatedOps ==
    {"process_call_queue", "webhook", "webhook_call_not_found", "sync_stuck_calls",
     "check_cv_followups", "followup", "close_stale_rejected", "inbound_cv"}

\* C40: once an application is CLOSED, no step of a scheduler job, of the
\* webhook or poll reducer, of an evaluation or of the CV matching changes its
\* status.
C40_ClosedIsFinal ==
    [][\A a \in AppIds :
          db.status[a] = CLOSED /\ ev'.op \in AutomatedOps => db'.status[a] = CLOSED]_vars

\* The CV matching, the stale-close job and the follow-up job on rows read after
\* the application was closed leave a CLOSED application alone.
C40_FreshJobsKeepClosed ==
    [][\A a \in AppIds :
          /\ db.status[a] = CLOSED
          /\ ev'.op \in {"inbound_cv", "close_stale_rejected", "check_cv_followups", "followup"}
          /\ \A i \in DOMAIN sweep : sweep[i].app = a => sweep[i].status = CLOSED
          => db'.status[a] = CLOSED]_vars
=============================================================================
